---- MODULE Spec2Model ----
(***************************************************************************)
(* State-machine model of ferris-lab: the WebSocket peer layer             *)
(* (src/src/websocket.rs) and the conversation coordinator of Agent::run   *)
(* (src/src/agent.rs).                                                     *)
(*                                                                         *)
(* A process is addressed by its index p (its port / URL) and announces    *)
(* the identity AgentId(p).  A link is one WebSocket: the connector's      *)
(* connect_to_peer call and the tasks it spawns on one end, handle_socket's*)
(* handle_incoming / handle_outgoing tasks on the other.  Each direction   *)
(* of a link is one FIFO: the frames written to the socket followed by the *)
(* frames waiting in the writer's broadcast receiver.                      *)
(***************************************************************************)
EXTENDS Integers, Sequences, FiniteSets, TLC

\* ---------------------------------------------------------------- bounds

\* Link slots that can be in use at the same time.
MaxLinks == 2
\* connect_to_peer calls the test driver makes per (caller, url).
MaxCalls == 2
\* broadcast() calls the test driver makes per process.
MaxBroadcasts == 1
\* take_incoming_receiver calls made per process.
MaxTakes == 3
\* Bursts of broadcast() calls the test driver makes per process.
MaxFlood == 2
\* broadcast() calls the test driver makes per process when it sends a
\* sequence of messages.
MaxPublishes == 2
\* Raw frames the test driver writes per process.
MaxRaw == 1

\* ------------------------------------------------------------- constants

Procs == {1, 2, 3}
Links == 1 .. MaxLinks

\* The identity of process p: the characters that follow "agent-".
AgentId(p) == <<p>>
Ids == {AgentId(p) : p \in Procs}
NoId == <<>>

\* String's `<`: lexicographic comparison of the two character sequences.
RECURSIVE str_lt(_, _)
str_lt(a, b) ==
    IF b = <<>> THEN FALSE
    ELSE IF a = <<>> THEN TRUE
    ELSE IF Head(a) < Head(b) THEN TRUE
    ELSE IF Head(a) > Head(b) THEN FALSE
    ELSE str_lt(Tail(a), Tail(b))

\* --------------------------------------------------------- AgentMessage

Presence(id) == [kind |-> "Presence", agent_id |-> id]
PresenceAck(id) == [kind |-> "PresenceAck", agent_id |-> id]
Ping(id, seq) == [kind |-> "Ping", agent_id |-> id, seq |-> seq]
\* A Pong that does not carry the sequence number it is given.
Pong_wrong_seq(id, seq) == [kind |-> "Pong", agent_id |-> id, seq |-> seq + 1]
Pong(id, seq) == [kind |-> "Pong", agent_id |-> id, seq |-> seq]
Text(id, content) == [kind |-> "Text", agent_id |-> id, content |-> content]
Number(id, value) == [kind |-> "Number", agent_id |-> id, value |-> value]

\* The value of a frame that does not deserialize.
ParseError == [kind |-> "Err"]

\* A serializer that tags a Number as "text".
to_string_number_as_text(m) ==
    CASE m.kind = "Presence" -> [type |-> "presence", agent_id |-> m.agent_id]
      [] m.kind = "PresenceAck" -> [type |-> "presence_ack", agent_id |-> m.agent_id]
      [] m.kind = "Ping" -> [type |-> "ping", agent_id |-> m.agent_id, seq |-> m.seq]
      [] m.kind = "Pong" -> [type |-> "pong", agent_id |-> m.agent_id, seq |-> m.seq]
      [] m.kind = "Text" -> [type |-> "text", agent_id |-> m.agent_id, content |-> m.content]
      [] m.kind = "Number" -> [type |-> "text", agent_id |-> m.agent_id, value |-> m.value]

\* serde_json::to_string under #[serde(tag = "type")]: the JSON object with
\* the variant's renamed tag in "type" beside the variant's fields.
to_string(m) ==
    CASE m.kind = "Presence" -> [type |-> "presence", agent_id |-> m.agent_id]
      [] m.kind = "PresenceAck" -> [type |-> "presence_ack", agent_id |-> m.agent_id]
      [] m.kind = "Ping" -> [type |-> "ping", agent_id |-> m.agent_id, seq |-> m.seq]
      [] m.kind = "Pong" -> [type |-> "pong", agent_id |-> m.agent_id, seq |-> m.seq]
      [] m.kind = "Text" -> [type |-> "text", agent_id |-> m.agent_id, content |-> m.content]
      [] m.kind = "Number" -> [type |-> "number", agent_id |-> m.agent_id, value |-> m.value]

\* serde_json::from_str::<AgentMessage>: the variant the "type" tag names,
\* when the object carries that variant's fields; an error otherwise.
from_str(w) ==
    LET has(fields) == fields \subseteq DOMAIN w
    IN  IF ~has({"type", "agent_id"}) THEN ParseError
        ELSE CASE w.type = "presence" -> Presence(w.agent_id)
               [] w.type = "presence_ack" -> PresenceAck(w.agent_id)
               [] w.type = "ping" /\ has({"seq"}) -> Ping(w.agent_id, w.seq)
               [] w.type = "pong" /\ has({"seq"}) -> Pong(w.agent_id, w.seq)
               [] w.type = "text" /\ has({"content"}) -> Text(w.agent_id, w.content)
               [] w.type = "number" /\ has({"value"}) -> Number(w.agent_id, w.value)
               [] OTHER -> ParseError

\* ---------------------------------------------------------------- state

VARIABLES
    nodes,            \* the processes of the run
    peer_addresses,   \* Config.peer_addresses of each process (urls = process indices)
    listening,        \* WebSocketServer::start has bound the listener
    connected_peers,  \* WebSocketServer.connected_peers
    connected_urls,   \* WebSocketServer.connected_urls
    incoming,         \* the mpsc delivery queue behind incoming_tx / incoming_rx
    link,             \* the sockets and the tasks at their two ends
    results,          \* per caller: the urls of its connect_to_peer calls and the
                      \* PeerConnectionResult of each call that returned, in order
    published,        \* per process: the messages the test driver passed to broadcast()
                      \* and the raw frames it wrote, in order
    ollama_enabled,   \* Config.ollama_enabled of each process
    incoming_rx,      \* WebSocketServer.incoming_rx: TRUE while the receiver is still there
    conversation_counts,           \* Agent.conversation_counts: peer id -> sent by us
    conversation_received_counts,  \* Agent.conversation_received_counts
    conversation_completed,        \* Agent.conversation_completed
    run,              \* Agent::run: where each process is and its local variables
    handler,          \* the spawned incoming-message handler task and its locals
    log               \* per process: what it has broadcast and logged so far

netvars == <<nodes, peer_addresses, listening, connected_peers, connected_urls,
             incoming, link, results, published>>

agentvars == <<ollama_enabled, incoming_rx, conversation_counts,
               conversation_received_counts, conversation_completed, run, handler, log>>

vars == <<nodes, peer_addresses, listening, connected_peers, connected_urls,
          incoming, link, results, published, ollama_enabled, incoming_rx,
          conversation_counts, conversation_received_counts, conversation_completed,
          run, handler, log>>

\* A link slot nobody uses.  `writer` is the writer task of the connecting
\* end and `outgoing` is handle_outgoing of the accepting end: "none" before
\* the task is spawned, then "running", and "ended" once its loop is left.
FreeLink ==
    [conn |-> 0, acc |-> 0, cst |-> "free", ast |-> "none", open |-> FALSE,
     crx |-> <<>>, c2a |-> <<>>, a2c |-> <<>>, peer_id |-> NoId, peer_agent_id |-> NoId,
     writer |-> "none", outgoing |-> "none"]

\* A slot whose reading tasks have all ended is used again (a writer still
\* waiting in rx.recv() is not followed further); a direction nobody reads
\* any more holds nothing.
Settle(r) ==
    IF r.cst = "ended" /\ r.ast \in {"none", "ended"} THEN FreeLink
    ELSE IF r.cst = "ended" THEN [r EXCEPT !.a2c = <<>>, !.crx = <<>>]
    ELSE IF r.ast = "ended" THEN [r EXCEPT !.c2a = <<>>]
    ELSE r

\* broadcast::channel(100): the values the channel retains for a receiver.
BROADCAST_CAPACITY == 100

\* What a receiver that fell behind finds first: its next recv() returns
\* Err(RecvError::Lagged(_)).
Lagged == [type |-> "lagged"]

\* The receiver whose pending values are q has lost values.
HasLagged(q) == q # <<>> /\ Head(q) = Lagged

\* The values a receiver with pending values q can still receive.
Retained(q) == IF HasLagged(q) THEN Tail(q) ELSE q

\* The pending values of a receiver that is not reading, after the values ws
\* are sent: beyond the capacity the oldest values are released and the
\* receiver has lagged.
retain(q, ws) ==
    LET all == Retained(q) \o ws
    IN  IF Len(all) <= BROADCAST_CAPACITY
        THEN q \o ws
        ELSE <<Lagged>> \o SubSeq(all, Len(all) - BROADCAST_CAPACITY + 1, Len(all))

\* The writer task of the outbound link r is in its loop.
WriterRuns(r) == r.cst = "up" /\ r.open /\ r.crx = <<>>

\* A channel that hands the newest frames to a socket first.
tx_send_all_newest_first(lk, p, ws) ==
    [l \in Links |->
        LET r == lk[l]
            r1 == IF r.conn = p /\ r.cst \in {"connecting", "ackwait", "acksend"}
                  THEN [r EXCEPT !.crx = retain(@, ws)]
                  ELSE IF r.conn = p /\ WriterRuns(r)
                  THEN [r EXCEPT !.c2a = ws \o @]
                  ELSE IF r.conn = p /\ r.writer = "running" /\ ~r.open
                  THEN [r EXCEPT !.writer = "ended"]
                  ELSE r
        IN  IF r.acc = p /\ r.open
            THEN [r1 EXCEPT !.a2c = ws \o @]
            ELSE IF r.acc = p /\ r.outgoing = "running"
            THEN [r1 EXCEPT !.outgoing = "ended"]
            ELSE r1]

\* broadcast::Sender::send, once for each frame of ws: the frames reach every
\* receiver subscribed to p's channel: the rx of each connect_to_peer call in
\* progress, the writer task of each outbound link, handle_outgoing of each
\* accepted socket.  A writer whose socket is closed fails its send and ends:
\* until then it stays in rx.recv().
tx_send_all(lk, p, ws) ==
    [l \in Links |->
        LET r == lk[l]
            r1 == IF r.conn = p /\ r.cst \in {"connecting", "ackwait", "acksend"}
                  THEN [r EXCEPT !.crx = retain(@, ws)]
                  ELSE IF r.conn = p /\ WriterRuns(r)
                  THEN [r EXCEPT !.c2a = @ \o ws]
                  ELSE IF r.conn = p /\ r.writer = "running" /\ ~r.open
                  THEN [r EXCEPT !.writer = "ended"]
                  ELSE r
        IN  IF r.acc = p /\ r.open
            THEN [r1 EXCEPT !.a2c = @ \o ws]
            ELSE IF r.acc = p /\ r.outgoing = "running"
            THEN [r1 EXCEPT !.outgoing = "ended"]
            ELSE r1]

\* broadcast::Sender::send of one frame.
tx_send(lk, p, w) == tx_send_all(lk, p, <<w>>)

\* An insert that adds nothing.
insert_nothing(set, x) == set \cap (set \cup {x})

\* HashSet::insert
insert(set, x) == set \cup {x}

\* connect_async fails and the url is left marked as connected.
connect_async_err_marks_url(l) ==
    /\ link[l].cst = "connecting"
    /\ ~listening[link[l].acc]
    /\ link' = [link EXCEPT ![l] = [conn |-> 0, acc |-> 0, cst |-> "free", ast |-> "none",
                                    open |-> FALSE, crx |-> <<>>, c2a |-> <<>>, a2c |-> <<>>,
                                    peer_id |-> <<>>, peer_agent_id |-> <<>>,
                                    writer |-> "none", outgoing |-> "none"]]
    /\ connected_urls' = [connected_urls EXCEPT ![link[l].conn] = @ \cup {link[l].acc}]
    /\ results' = [results EXCEPT ![link[l].conn].returns = Append(@, <<link[l].acc, "Failed">>)]
    /\ UNCHANGED <<nodes, peer_addresses, listening, connected_peers, incoming, published>>

\* A check that never finds the url.
is_connected_to_url_never(p, url) == FALSE /\ url \in connected_urls[p]

\* WebSocketServer::is_connected_to_url
is_connected_to_url(p, url) == url \in connected_urls[p]

\* WebSocketServer::peer_count, has_peers, get_peer_ids
peer_count(p) == Cardinality(connected_peers[p])
has_peers(p) == connected_peers[p] # {}
get_peer_ids(p) == connected_peers[p]

\* The calls of c to url that have not returned yet.
InProgress(c, url) ==
    {l \in Links : link[l].conn = c /\ link[l].acc = url
                    /\ link[l].cst \in {"connecting", "ackwait", "acksend"}}

\* The calls c has made to url.
Called(c, url) == Len(SelectSeq(results[c].calls, LAMBDA x : x = url))

\* The calls of c to url that have returned.
Returned(c, url) == Len(SelectSeq(results[c].returns, LAMBDA x : x[1] = url))

\* The lowest free link slot.
FreeSlot == CHOOSE l \in Links : link[l].cst = "free" /\ \A k \in Links : link[k].cst = "free" => l <= k

\* ------------------------------------------------- connect_to_peer (caller c)

\* The url is in connected_urls: Connected at once, nothing else happens.
connect_to_peer_already(c, url) ==
    /\ is_connected_to_url(c, url)
    /\ results' = [results EXCEPT ![c].calls = Append(@, url),
                                ![c].returns = Append(@, <<url, "Connected">>)]
    /\ UNCHANGED <<nodes, peer_addresses, listening, connected_peers, connected_urls,
                   incoming, link, published>>

\* The url is not in connected_urls: subscribe rx to the broadcast channel
\* and start connect_async under the 5 s timeout.
connect_to_peer_begin(c, url) ==
    /\ ~is_connected_to_url(c, url)
    /\ \E l \in Links : link[l].cst = "free"
    /\ link' = [link EXCEPT ![FreeSlot] =
                   [FreeLink EXCEPT !.conn = c, !.acc = url, !.cst = "connecting"]]
    /\ results' = [results EXCEPT ![c].calls = Append(@, url)]
    /\ UNCHANGED <<nodes, peer_addresses, listening, connected_peers, connected_urls,
                   incoming, published>>

\* connect_async succeeds and the url is marked connected before the ack.
connect_async_ok_marks_url(l) ==
    /\ link[l].cst = "connecting"
    /\ listening[link[l].acc]
    /\ link' = [link EXCEPT ![l] =
                   [@ EXCEPT !.cst = "ackwait", !.ast = "reading", !.open = TRUE,
                             !.outgoing = "running",
                             !.c2a = <<to_string(Presence(AgentId(link[l].conn)))>>,
                             !.a2c = <<to_string(Presence(AgentId(link[l].acc)))>>]]
    /\ connected_urls' = [connected_urls EXCEPT ![link[l].conn] = @ \cup {link[l].acc}]
    /\ UNCHANGED <<nodes, peer_addresses, listening, connected_peers,
                   incoming, results, published>>

\* connect_async succeeds: the acceptor's handle_socket subscribes its rx and
\* spawns handle_incoming and handle_outgoing, which first writes its own
\* Presence; the connector writes its Presence and starts the 3 s ack wait.
connect_async_ok(l) ==
    /\ link[l].cst = "connecting"
    /\ listening[link[l].acc]
    /\ link' = [link EXCEPT ![l] =
                   [@ EXCEPT !.cst = "ackwait", !.ast = "reading", !.open = TRUE,
                             !.outgoing = "running",
                             !.c2a = <<to_string(Presence(AgentId(link[l].conn)))>>,
                             !.a2c = <<to_string(Presence(AgentId(link[l].acc)))>>]]
    /\ UNCHANGED <<nodes, peer_addresses, listening, connected_peers, connected_urls,
                   incoming, results, published>>

\* connect_async returns an error (Ok(Err(e))): no listener at the url.
connect_async_err(l) ==
    /\ link[l].cst = "connecting"
    /\ ~listening[link[l].acc]
    /\ link' = [link EXCEPT ![l] = FreeLink]
    /\ results' = [results EXCEPT ![link[l].conn].returns = Append(@, <<link[l].acc, "Failed">>)]
    /\ UNCHANGED <<nodes, peer_addresses, listening, connected_peers, connected_urls,
                   incoming, published>>

\* The 5 s timeout fires first (Err(_)): "Connection timeout".
connect_async_timeout(l) ==
    /\ link[l].cst = "connecting"
    /\ link' = [link EXCEPT ![l] = FreeLink]
    /\ results' = [results EXCEPT ![link[l].conn].returns = Append(@, <<link[l].acc, "Failed">>)]
    /\ UNCHANGED <<nodes, peer_addresses, listening, connected_peers, connected_urls,
                   incoming, published>>

\* What the writer task does with the pending values crx of its receiver when
\* it is spawned on a socket that holds the frames c2a: it writes them all,
\* unless the receiver has lagged: then its first recv() is an Err, the
\* `while let Ok` loop is over and the task ends having written nothing.
writer_task_spawn(c2a, crx, open) ==
    IF HasLagged(crx) THEN [c2a |-> c2a, crx |-> <<Lagged>>, writer |-> "ended"]
    ELSE [c2a |-> IF open THEN c2a \o crx ELSE c2a, crx |-> <<>>,
          writer |-> IF ~open /\ crx # <<>> THEN "ended" ELSE "running"]

\* mpsc::channel(100): the messages the delivery queue holds.
INCOMING_CAPACITY == 100

\* incoming_tx.send(..).await completes without waiting: the queue of p has
\* room.
CanSend(p) == Len(incoming[p]) < INCOMING_CAPACITY

\* One turn of the ack wait loop: the next frame of the socket.  A
\* PresenceAck ends the wait: the peer and the url are registered, the
\* reader and the writer task are spawned (the writer starts with what rx
\* holds) and the call returns Connected.  Any other frame that parses goes
\* to incoming_tx; a frame that does not parse is skipped.  When the queue
\* is full the loop is suspended in the send ("acksend"), holding the frame
\* it has read (kept at the head of a2c).
ack_wait_read(l) ==
    LET r == link[l]
        c == r.conn
        m == from_str(Head(r.a2c))
    IN  /\ r.cst = "ackwait"
        /\ r.a2c # <<>>
        /\ IF m.kind = "PresenceAck"
           THEN /\ connected_peers' = [connected_peers EXCEPT ![c] = insert(@, m.agent_id)]
                /\ connected_urls' = [connected_urls EXCEPT ![c] = insert(@, r.acc)]
                /\ link' = [link EXCEPT ![l] =
                               [r EXCEPT !.cst = "up", !.peer_id = m.agent_id,
                                         !.a2c = Tail(r.a2c),
                                         !.c2a = writer_task_spawn(r.c2a, r.crx, r.open).c2a,
                                         !.crx = writer_task_spawn(r.c2a, r.crx, r.open).crx,
                                         !.writer = writer_task_spawn(r.c2a, r.crx, r.open).writer]]
                /\ results' = [results EXCEPT ![c].returns = Append(@, <<r.acc, "Connected">>)]
                /\ UNCHANGED incoming
           ELSE /\ IF m = ParseError
                   THEN link' = [link EXCEPT ![l].a2c = Tail(@)] /\ UNCHANGED incoming
                   ELSE IF CanSend(c)
                   THEN /\ link' = [link EXCEPT ![l].a2c = Tail(@)]
                        /\ incoming' = [incoming EXCEPT ![c] = Append(@, m)]
                   ELSE link' = [link EXCEPT ![l].cst = "acksend"] /\ UNCHANGED incoming
                /\ UNCHANGED <<connected_peers, connected_urls, results>>
        /\ UNCHANGED <<nodes, peer_addresses, listening, published>>

\* The send the ack wait is suspended in completes: the queue has room again
\* and takes the frame, and the loop goes on.
ack_wait_send(l) ==
    LET r == link[l]
    IN  /\ r.cst = "acksend"
        /\ CanSend(r.conn)
        /\ link' = [link EXCEPT ![l].a2c = Tail(@), ![l].cst = "ackwait"]
        /\ incoming' = [incoming EXCEPT ![r.conn] = Append(@, from_str(Head(r.a2c)))]
        /\ UNCHANGED <<nodes, peer_addresses, listening, connected_peers, connected_urls,
                       results, published>>

\* The stream ends during the ack wait (Ok(None)): "Connection closed before
\* handshake".  The call returns Failed and drops the socket and rx.
ack_wait_closed(l) ==
    /\ link[l].cst = "ackwait"
    /\ ~link[l].open
    /\ link' = [link EXCEPT ![l] = Settle([@ EXCEPT !.cst = "ended"])]
    /\ results' = [results EXCEPT ![link[l].conn].returns = Append(@, <<link[l].acc, "Failed">>)]
    /\ UNCHANGED <<nodes, peer_addresses, listening, connected_peers, connected_urls,
                   incoming, published>>

\* The 3 s timeout fires during the ack wait (Err(_)): "Handshake timeout".
\* The call returns Failed and drops the socket and rx, and with the future
\* of the wait the frame a suspended send holds.
ack_wait_timeout(l) ==
    /\ link[l].cst \in {"ackwait", "acksend"}
    /\ link' = [link EXCEPT ![l] = Settle([@ EXCEPT !.cst = "ended", !.open = FALSE])]
    /\ results' = [results EXCEPT ![link[l].conn].returns = Append(@, <<link[l].acc, "Failed">>)]
    /\ UNCHANGED <<nodes, peer_addresses, listening, connected_peers, connected_urls,
                   incoming, published>>

\* A reader task that forwards whatever the parse returns, its error included.
reader_task_read_forwards_error(l) ==
    LET r == link[l]
        m == from_str(Head(r.a2c))
    IN  /\ r.cst = "up"
        /\ r.a2c # <<>>
        /\ CanSend(r.conn)
        /\ link' = [link EXCEPT ![l].a2c = Tail(@)]
        /\ incoming' = [incoming EXCEPT ![r.conn] = Append(@, m)]
        /\ UNCHANGED <<nodes, peer_addresses, listening, connected_peers, connected_urls,
                       results, published>>

\* The reader task of an outbound link: every frame that parses goes to
\* incoming_tx.
reader_task_read(l) ==
    LET r == link[l]
        m == from_str(Head(r.a2c))
    IN  /\ r.cst = "up"
        /\ r.a2c # <<>>
        /\ m # ParseError => CanSend(r.conn)
        /\ link' = [link EXCEPT ![l].a2c = Tail(@)]
        /\ incoming' = IF m = ParseError THEN incoming
                       ELSE [incoming EXCEPT ![r.conn] = Append(@, m)]
        /\ UNCHANGED <<nodes, peer_addresses, listening, connected_peers, connected_urls,
                       results, published>>

\* A reader task whose cleanup removes the peer and leaves the url.
reader_task_end_keeps_url(l) ==
    LET r == link[l]
    IN  /\ r.cst = "up"
        /\ ~r.open
        /\ connected_peers' = [connected_peers EXCEPT ![r.conn] = @ \ {r.peer_id}]
        /\ link' = [link EXCEPT ![l] = Settle([r EXCEPT !.cst = "ended"])]
        /\ UNCHANGED <<nodes, peer_addresses, listening, connected_urls, incoming,
                       results, published>>

\* The reader task's stream ends: the peer and the url are removed.
reader_task_end(l) ==
    LET r == link[l]
    IN  /\ r.cst = "up"
        /\ ~r.open
        /\ connected_peers' = [connected_peers EXCEPT ![r.conn] = @ \ {r.peer_id}]
        /\ connected_urls' = [connected_urls EXCEPT ![r.conn] = @ \ {r.acc}]
        /\ link' = [link EXCEPT ![l] = Settle([r EXCEPT !.cst = "ended"])]
        /\ UNCHANGED <<nodes, peer_addresses, listening, incoming, results, published>>

\* ------------------------------------------------ handle_incoming (acceptor)

\* A handle_incoming that registers the peer of a Presence and forwards the
\* Presence to the delivery queue as well.
handle_incoming_read_forwards_presence(l) ==
    LET r == link[l]
        a == r.acc
        m == from_str(Head(r.c2a))
        popped == [link EXCEPT ![l].c2a = Tail(@)]
    IN  /\ r.ast = "reading"
        /\ r.c2a # <<>>
        /\ CASE m.kind = "Presence" ->
                  /\ connected_peers' = [connected_peers EXCEPT ![a] = insert(@, m.agent_id)]
                  /\ link' = tx_send([popped EXCEPT ![l].peer_agent_id = m.agent_id],
                                     a, to_string(PresenceAck(AgentId(a))))
                  /\ incoming' = [incoming EXCEPT ![a] = Append(@, m)]
             [] m.kind = "Ping" ->
                  /\ link' = tx_send(popped, a, to_string(Pong(AgentId(a), m.seq)))
                  /\ UNCHANGED <<connected_peers, incoming>>
             [] m.kind = "Err" ->
                  /\ link' = popped
                  /\ UNCHANGED <<connected_peers, incoming>>
             [] OTHER ->
                  /\ CanSend(a)
                  /\ link' = popped
                  /\ incoming' = [incoming EXCEPT ![a] = Append(@, m)]
                  /\ UNCHANGED connected_peers
        /\ UNCHANGED <<nodes, peer_addresses, listening, connected_urls, results, published>>

\* A handle_incoming that also publishes every accepted application frame on
\* the broadcast channel.
handle_incoming_read_relays(l) ==
    LET r == link[l]
        a == r.acc
        m == from_str(Head(r.c2a))
        popped == [link EXCEPT ![l].c2a = Tail(@)]
    IN  /\ r.ast = "reading"
        /\ r.c2a # <<>>
        /\ CASE m.kind = "Presence" ->
                  /\ connected_peers' = [connected_peers EXCEPT ![a] = insert(@, m.agent_id)]
                  /\ link' = tx_send([popped EXCEPT ![l].peer_agent_id = m.agent_id],
                                     a, to_string(PresenceAck(AgentId(a))))
                  /\ UNCHANGED incoming
             [] m.kind = "Ping" ->
                  /\ link' = tx_send(popped, a, to_string(Pong(AgentId(a), m.seq)))
                  /\ UNCHANGED <<connected_peers, incoming>>
             [] m.kind = "Err" ->
                  /\ link' = popped
                  /\ UNCHANGED <<connected_peers, incoming>>
             [] OTHER ->
                  /\ CanSend(a)
                  /\ link' = tx_send(popped, a, Head(r.c2a))
                  /\ incoming' = [incoming EXCEPT ![a] = Append(@, m)]
                  /\ UNCHANGED connected_peers
        /\ UNCHANGED <<nodes, peer_addresses, listening, connected_urls, results, published>>

\* A handle_incoming whose ack carries the identity the Presence announced.
handle_incoming_read_acks_as_peer(l) ==
    LET r == link[l]
        a == r.acc
        m == from_str(Head(r.c2a))
        popped == [link EXCEPT ![l].c2a = Tail(@)]
    IN  /\ r.ast = "reading"
        /\ r.c2a # <<>>
        /\ CASE m.kind = "Presence" ->
                  /\ connected_peers' = [connected_peers EXCEPT ![a] = insert(@, m.agent_id)]
                  /\ link' = tx_send([popped EXCEPT ![l].peer_agent_id = m.agent_id],
                                     a, to_string(PresenceAck(m.agent_id)))
                  /\ UNCHANGED incoming
             [] m.kind = "Ping" ->
                  /\ link' = tx_send(popped, a, to_string(Pong(AgentId(a), m.seq)))
                  /\ UNCHANGED <<connected_peers, incoming>>
             [] m.kind = "Err" ->
                  /\ link' = popped
                  /\ UNCHANGED <<connected_peers, incoming>>
             [] OTHER ->
                  /\ CanSend(a)
                  /\ link' = popped
                  /\ incoming' = [incoming EXCEPT ![a] = Append(@, m)]
                  /\ UNCHANGED connected_peers
        /\ UNCHANGED <<nodes, peer_addresses, listening, connected_urls, results, published>>

\* One turn of handle_incoming's loop: the next frame of the socket.
\* Presence: remember and register the peer, publish a PresenceAck on the
\* broadcast channel.  Ping: publish a Pong.  Any other frame that parses
\* goes to incoming_tx; a frame that does not parse is skipped.
handle_incoming_read(l) ==
    LET r == link[l]
        a == r.acc
        m == from_str(Head(r.c2a))
        popped == [link EXCEPT ![l].c2a = Tail(@)]
    IN  /\ r.ast = "reading"
        /\ r.c2a # <<>>
        /\ CASE m.kind = "Presence" ->
                  /\ connected_peers' = [connected_peers EXCEPT ![a] = insert(@, m.agent_id)]
                  /\ link' = tx_send([popped EXCEPT ![l].peer_agent_id = m.agent_id],
                                     a, to_string(PresenceAck(AgentId(a))))
                  /\ UNCHANGED incoming
             [] m.kind = "Ping" ->
                  /\ link' = tx_send(popped, a, to_string(Pong(AgentId(a), m.seq)))
                  /\ UNCHANGED <<connected_peers, incoming>>
             [] m.kind = "Err" ->
                  /\ link' = popped
                  /\ UNCHANGED <<connected_peers, incoming>>
             [] OTHER ->
                  /\ CanSend(a)
                  /\ link' = popped
                  /\ incoming' = [incoming EXCEPT ![a] = Append(@, m)]
                  /\ UNCHANGED connected_peers
        /\ UNCHANGED <<nodes, peer_addresses, listening, connected_urls, results, published>>

\* handle_incoming has read an application frame and finds the delivery
\* queue full: it is suspended in incoming_tx.send(parsed).await, holding the
\* frame (kept at the head of c2a), and reads nothing until the send ends.
handle_incoming_hold(l) ==
    LET r == link[l]
        m == from_str(Head(r.c2a))
    IN  /\ r.ast = "reading"
        /\ r.c2a # <<>>
        /\ m.kind \notin {"Presence", "Ping", "Err"}
        /\ ~CanSend(r.acc)
        /\ link' = [link EXCEPT ![l].ast = "sending"]
        /\ UNCHANGED <<nodes, peer_addresses, listening, connected_peers, connected_urls,
                       incoming, results, published>>

\* The send handle_incoming is suspended in completes: the queue has room
\* again and takes the frame, and the loop goes on.
handle_incoming_send(l) ==
    LET r == link[l]
    IN  /\ r.ast = "sending"
        /\ CanSend(r.acc)
        /\ link' = [link EXCEPT ![l].c2a = Tail(@), ![l].ast = "reading"]
        /\ incoming' = [incoming EXCEPT ![r.acc] = Append(@, from_str(Head(r.c2a)))]
        /\ UNCHANGED <<nodes, peer_addresses, listening, connected_peers, connected_urls,
                       results, published>>

\* handle_incoming's stream ends: the peer the socket announced, if any, is
\* removed.
handle_incoming_end(l) ==
    LET r == link[l]
    IN  /\ r.ast = "reading"
        /\ ~r.open
        /\ connected_peers' = [connected_peers EXCEPT ![r.acc] = @ \ {r.peer_agent_id}]
        /\ link' = [link EXCEPT ![l] = Settle([r EXCEPT !.ast = "ended"])]
        /\ UNCHANGED <<nodes, peer_addresses, listening, connected_urls, incoming,
                       results, published>>

\* ------------------------------------------------------------ environment

\* WebSocketServer::start: the listener is bound.
start(p) ==
    /\ p \in nodes
    /\ run[p].pc = "off"
    /\ ~listening[p]
    /\ listening' = [listening EXCEPT ![p] = TRUE]
    /\ UNCHANGED <<nodes, peer_addresses, connected_peers, connected_urls, incoming,
                   link, results, published>>

\* The socket of a link closes (either end goes away, or the network does).
socket_close(l) ==
    /\ link[l].open
    /\ link' = [link EXCEPT ![l].open = FALSE]
    /\ UNCHANGED <<nodes, peer_addresses, listening, connected_peers, connected_urls,
                   incoming, results, published>>

\* WebSocketServer::broadcast: serialize the message and publish it.
broadcast(lk, p, m) == tx_send(lk, p, to_string(m))

\* --------------------------------------------------------------- Agent

\* Maximum messages per conversation (total across both agents).
MAX_CONVERSATION_MESSAGES == 4

\* The iterations of the quick poll for peers (10 in agent.rs).
PollRounds == 2

\* The values send_random_number draws from 1 ..= 1000000 in the model.
RandomValues == {1, 1000000}

\* The text ollama.generate returns: what the prompt asked for.
Greeting == "greeting"
Reply == "reply"

\* Agent::new: run() at its start, no handler task yet.
NewRun ==
    [pc |-> "start", phase |-> "first", i |-> 1, has_peers |-> FALSE, peers |-> {},
     initiated_conversation |-> FALSE, polls |-> 0]
NoRun == [NewRun EXCEPT !.pc = "off"]
NoHandler == [pc |-> "none", peer_id |-> NoId, recv_count |-> 0, new_count |-> 0]
NewLog == [greetings |-> 0, replies |-> 0, numbers |-> 0, greeted_by |-> {},
           qualified |-> [id \in Ids |-> 0], complete |-> [id \in Ids |-> 0],
           takes |-> <<>>]

\* No connect_to_peer call of a is waiting to return.
NoCall(a) == \A l \in Links : ~(link[l].conn = a /\ link[l].cst \in {"connecting", "ackwait", "acksend"})

\* peers.iter().all(|peer| self.config.agent_id < *peer)
should_initiate(a, peers) == \A peer \in peers : str_lt(AgentId(a), peer)

\* A first check that leaves initiated_conversation false.
AfterFirst_forgets(r) ==
    [r EXCEPT !.initiated_conversation = FALSE,
              !.phase = IF r.has_peers THEN "retry" ELSE "poll",
              !.pc = "has_peers", !.has_peers = FALSE, !.peers = {}, !.polls = 0]

\* Where run() goes after the first check: initiated_conversation =
\* has_peers, then the poll loop if it is false and the retry loop if not.
AfterFirst(r) ==
    [r EXCEPT !.initiated_conversation = r.has_peers,
              !.phase = IF r.has_peers THEN "retry" ELSE "poll",
              !.pc = "has_peers", !.has_peers = FALSE, !.peers = {}, !.polls = 0]

\* The end of one iteration of the poll loop.
PollNext(r) ==
    IF r.polls + 1 >= PollRounds
    THEN [r EXCEPT !.phase = "retry", !.pc = "has_peers", !.peers = {}, !.polls = 0]
    ELSE [r EXCEPT !.pc = "has_peers", !.peers = {}, !.polls = r.polls + 1]

\* `break` out of the poll loop: on to the retry loop.
PollBreak(r) == [r EXCEPT !.phase = "retry", !.pc = "has_peers", !.peers = {}, !.polls = 0]

\* The retry loop after its initiate check: the connection retries.
RetryRest(r) == [r EXCEPT !.pc = "retry_connect", !.peers = {}]

\* The top of the retry loop (the 10 s sleep).
RetryTop(r) == [r EXCEPT !.pc = "has_peers", !.i = 1, !.peers = {}]

\* Where run() goes once a greeting attempt is over.
AfterGreeting(r) ==
    CASE r.phase = "first" -> AfterFirst(r)
      [] r.phase = "poll" -> PollBreak(r)
      [] r.phase = "retry" -> RetryRest(r)

\* A budget test that lets one message too many through.
limit_reached_late(our_count) == our_count > MAX_CONVERSATION_MESSAGES \div 2

\* our_count >= MAX_CONVERSATION_MESSAGES / 2
limit_reached(our_count) == our_count >= MAX_CONVERSATION_MESSAGES \div 2

\* A completion that notifies whether or not the peer was already in the set.
maybe_log_conversation_complete_unguarded(cs, lg, a, peer_id, our_count, recv_count) ==
    LET limit == MAX_CONVERSATION_MESSAGES \div 2
    IN  IF our_count < limit \/ recv_count < limit
        THEN [completed |-> cs, log |-> lg]
        ELSE [completed |-> [cs EXCEPT ![a] = @ \cup {peer_id}],
              log |-> [lg EXCEPT ![a].qualified[peer_id] = 1,
                                 ![a].complete[peer_id] = @ + 1]]

\* A completion that takes the peer out of the set when it finds it there.
maybe_log_conversation_complete_toggles(cs, lg, a, peer_id, our_count, recv_count) ==
    LET limit == MAX_CONVERSATION_MESSAGES \div 2
    IN  IF our_count < limit \/ recv_count < limit
        THEN [completed |-> cs, log |-> lg]
        ELSE IF peer_id \in cs[a]
        THEN [completed |-> [cs EXCEPT ![a] = @ \ {peer_id}],
              log |-> [lg EXCEPT ![a].qualified[peer_id] = 2]]
        ELSE [completed |-> [cs EXCEPT ![a] = @ \cup {peer_id}],
              log |-> [lg EXCEPT ![a].qualified[peer_id] = 1,
                                 ![a].complete[peer_id] = @ + 1]]

\* A completion that is satisfied when one of the two counts has reached the
\* limit.
maybe_log_conversation_complete_one_sided(cs, lg, a, peer_id, our_count, recv_count) ==
    LET limit == MAX_CONVERSATION_MESSAGES \div 2
    IN  IF our_count < limit /\ recv_count < limit
        THEN [completed |-> cs, log |-> lg]
        ELSE [completed |-> [cs EXCEPT ![a] = insert(@, peer_id)],
              log |-> IF peer_id \notin cs[a]
                      THEN [lg EXCEPT ![a].qualified[peer_id] = 1,
                                      ![a].complete[peer_id] = @ + 1]
                      ELSE [lg EXCEPT ![a].qualified[peer_id] = 2]]

\* Agent::maybe_log_conversation_complete on the completed set cs and the
\* log lg of process a: nothing below the limit; otherwise insert the peer,
\* and emit the notification when the insert added it.  The log counts the
\* notifications (complete) and records whether the limit was found reached
\* once or more than once (qualified).
maybe_log_conversation_complete(cs, lg, a, peer_id, our_count, recv_count) ==
    LET limit == MAX_CONVERSATION_MESSAGES \div 2
    IN  IF our_count < limit \/ recv_count < limit
        THEN [completed |-> cs, log |-> lg]
        ELSE [completed |-> [cs EXCEPT ![a] = insert(@, peer_id)],
              log |-> IF peer_id \notin cs[a]
                      THEN [lg EXCEPT ![a].qualified[peer_id] = 1,
                                      ![a].complete[peer_id] = @ + 1]
                      ELSE [lg EXCEPT ![a].qualified[peer_id] = 2]]

\* ------------------------------------------- Agent::run, the handler task

\* A handler that counts a Number like a Text.
handler_recv_counts_number(a, available) ==
    LET m == Head(incoming[a])
    IN  /\ handler[a].pc = "recv"
        /\ incoming[a] # <<>>
        /\ incoming' = [incoming EXCEPT ![a] = Tail(@)]
        /\ IF m.kind \in {"Text", "Number"}
           THEN LET peer_id == m.agent_id
                    recv_count == conversation_received_counts[a][peer_id] + 1
                    our_count == conversation_counts[a][peer_id]
                    lg == IF m.kind = "Text" /\ m.content = Greeting
                          THEN [log EXCEPT ![a].greeted_by = @ \cup {peer_id}]
                          ELSE log
                    done == maybe_log_conversation_complete(
                                conversation_completed, lg, a, peer_id, our_count, recv_count)
                IN  /\ conversation_received_counts' =
                           [conversation_received_counts EXCEPT ![a][peer_id] = recv_count]
                    /\ IF limit_reached(our_count)
                       THEN /\ conversation_completed' = done.completed
                            /\ log' = done.log
                            /\ UNCHANGED handler
                       ELSE /\ log' = lg
                            /\ handler' = IF ollama_enabled[a] /\ available
                                          THEN [handler EXCEPT ![a] =
                                                   [pc |-> "generate", peer_id |-> peer_id,
                                                    recv_count |-> recv_count, new_count |-> 0]]
                                          ELSE handler
                            /\ UNCHANGED conversation_completed
           ELSE UNCHANGED <<conversation_received_counts, conversation_completed, handler, log>>
        /\ UNCHANGED <<nodes, peer_addresses, listening, connected_peers, connected_urls,
                       link, results, published, ollama_enabled, incoming_rx,
                       conversation_counts, run>>

\* A handler that asks for a response whether or not the backend answers.
handler_recv_ignores_availability(a, available) ==
    LET m == Head(incoming[a])
    IN  /\ handler[a].pc = "recv"
        /\ incoming[a] # <<>>
        /\ incoming' = [incoming EXCEPT ![a] = Tail(@)]
        /\ IF m.kind = "Text"
           THEN LET peer_id == m.agent_id
                    recv_count == conversation_received_counts[a][peer_id] + 1
                    our_count == conversation_counts[a][peer_id]
                    lg == IF m.content = Greeting
                          THEN [log EXCEPT ![a].greeted_by = @ \cup {peer_id}]
                          ELSE log
                    done == maybe_log_conversation_complete(
                                conversation_completed, lg, a, peer_id, our_count, recv_count)
                IN  /\ conversation_received_counts' =
                           [conversation_received_counts EXCEPT ![a][peer_id] = recv_count]
                    /\ IF limit_reached(our_count)
                       THEN /\ conversation_completed' = done.completed
                            /\ log' = done.log
                            /\ UNCHANGED handler
                       ELSE /\ log' = lg
                            /\ handler' = IF ollama_enabled[a] \/ available
                                          THEN [handler EXCEPT ![a] =
                                                   [pc |-> "generate", peer_id |-> peer_id,
                                                    recv_count |-> recv_count, new_count |-> 0]]
                                          ELSE handler
                            /\ UNCHANGED conversation_completed
           ELSE UNCHANGED <<conversation_received_counts, conversation_completed, handler, log>>
        /\ UNCHANGED <<nodes, peer_addresses, listening, connected_peers, connected_urls,
                       link, results, published, ollama_enabled, incoming_rx,
                       conversation_counts, run>>

\* One turn of the handler's loop: the next message of the delivery queue.
\* Text: count it; at the limit try the completion and continue; below it,
\* if Ollama is enabled and available, start generating a response.
handler_recv(a, available) ==
    LET m == Head(incoming[a])
    IN  /\ handler[a].pc = "recv"
        /\ incoming[a] # <<>>
        /\ incoming' = [incoming EXCEPT ![a] = Tail(@)]
        /\ IF m.kind = "Text"
           THEN LET peer_id == m.agent_id
                    recv_count == conversation_received_counts[a][peer_id] + 1
                    our_count == conversation_counts[a][peer_id]
                    lg == IF m.content = Greeting
                          THEN [log EXCEPT ![a].greeted_by = @ \cup {peer_id}]
                          ELSE log
                    done == maybe_log_conversation_complete(
                                conversation_completed, lg, a, peer_id, our_count, recv_count)
                IN  /\ conversation_received_counts' =
                           [conversation_received_counts EXCEPT ![a][peer_id] = recv_count]
                    /\ IF limit_reached(our_count)
                       THEN /\ conversation_completed' = done.completed
                            /\ log' = done.log
                            /\ UNCHANGED handler
                       ELSE /\ log' = lg
                            /\ handler' = IF ollama_enabled[a] /\ available
                                          THEN [handler EXCEPT ![a] =
                                                   [pc |-> "generate", peer_id |-> peer_id,
                                                    recv_count |-> recv_count, new_count |-> 0]]
                                          ELSE handler
                            /\ UNCHANGED conversation_completed
           ELSE UNCHANGED <<conversation_received_counts, conversation_completed, handler, log>>
        /\ UNCHANGED <<nodes, peer_addresses, listening, connected_peers, connected_urls,
                       link, results, published, ollama_enabled, incoming_rx,
                       conversation_counts, run>>

\* ollama.generate returns to the handler: Ok, and our count for the peer is
\* incremented; or Err, and the message is dropped.
handler_generate(a, ok) ==
    LET h == handler[a]
    IN  /\ h.pc = "generate"
        /\ IF ok
           THEN /\ conversation_counts' =
                       [conversation_counts EXCEPT ![a][h.peer_id] = @ + 1]
                /\ handler' = [handler EXCEPT ![a] =
                                  [h EXCEPT !.pc = "send",
                                            !.new_count = conversation_counts[a][h.peer_id] + 1]]
           ELSE /\ handler' = [handler EXCEPT ![a] = [NoHandler EXCEPT !.pc = "recv"]]
                /\ UNCHANGED conversation_counts
        /\ UNCHANGED <<nodes, peer_addresses, listening, connected_peers, connected_urls,
                       incoming, link, results, published, ollama_enabled, incoming_rx,
                       conversation_received_counts, conversation_completed, run, log>>

\* The handler broadcasts the response and tries the completion.
handler_broadcast(a) ==
    LET h == handler[a]
        done == maybe_log_conversation_complete(
                    conversation_completed, [log EXCEPT ![a].replies = @ + 1],
                    a, h.peer_id, h.new_count, h.recv_count)
    IN  /\ h.pc = "send"
        /\ link' = broadcast(link, a, Text(AgentId(a), Reply))
        /\ conversation_completed' = done.completed
        /\ log' = done.log
        /\ handler' = [handler EXCEPT ![a] = [NoHandler EXCEPT !.pc = "recv"]]
        /\ UNCHANGED <<nodes, peer_addresses, listening, connected_peers, connected_urls,
                       incoming, results, published, ollama_enabled, incoming_rx,
                       conversation_counts, conversation_received_counts, run>>

\* ------------------------------------------------- Agent::run, the main task

AgentUnchanged ==
    UNCHANGED <<ollama_enabled, incoming_rx, conversation_counts,
                conversation_received_counts, conversation_completed, handler, log>>

\* self.websocket.start()
run_start(a) ==
    /\ run[a].pc = "start"
    /\ listening' = [listening EXCEPT ![a] = TRUE]
    /\ run' = [run EXCEPT ![a].pc = "connect"]
    /\ AgentUnchanged
    /\ UNCHANGED <<nodes, peer_addresses, connected_peers, connected_urls, incoming,
                   link, results, published>>

\* The initial loop over peer_addresses: the next connect_to_peer call, made
\* once the one before it has returned.
run_connect(a) ==
    LET r == run[a]
    IN  /\ r.pc = "connect"
        /\ r.i <= Len(peer_addresses[a])
        /\ NoCall(a)
        /\ \/ connect_to_peer_already(a, peer_addresses[a][r.i])
           \/ connect_to_peer_begin(a, peer_addresses[a][r.i])
        /\ run' = [run EXCEPT ![a].i = r.i + 1]
        /\ AgentUnchanged

\* A take that hands out the receiver and leaves it in place.
take_incoming_receiver_keeps(rx) == [returned |-> rx, left |-> rx]

\* WebSocketServer::take_incoming_receiver on the content rx of incoming_rx
\* (TRUE: Some(receiver)): Option::take under the write lock returns the
\* content and leaves None.
take_incoming_receiver(rx) == [returned |-> rx, left |-> FALSE]

\* What a take_incoming_receiver call by `who` that returned `returned`
\* leaves in the log.
Took(who, returned) == <<who, IF returned THEN "Some" ELSE "None">>

\* The loop is over; after the 500 ms sleep, take the incoming receiver and
\* spawn the handler task.
run_take(a) ==
    LET r == run[a]
        taken == take_incoming_receiver(incoming_rx[a])
    IN  /\ r.pc = "connect"
        /\ r.i > Len(peer_addresses[a])
        /\ NoCall(a)
        /\ incoming_rx' = [incoming_rx EXCEPT ![a] = taken.left]
        /\ handler' = IF taken.returned
                      THEN [handler EXCEPT ![a] = [NoHandler EXCEPT !.pc = "recv"]]
                      ELSE handler
        /\ run' = [run EXCEPT ![a] = [r EXCEPT !.pc = "has_peers", !.i = 1]]
        /\ log' = [log EXCEPT ![a].takes = Append(@, Took("run", taken.returned))]
        /\ UNCHANGED <<ollama_enabled, conversation_counts, conversation_received_counts,
                       conversation_completed>>
        /\ UNCHANGED netvars

\* self.websocket.has_peers(): before the first check, in an iteration of
\* the poll loop, at the top of the retry loop.
run_has_peers(a) ==
    LET r == run[a]
        hp == has_peers(a)
    IN  /\ r.pc = "has_peers"
        /\ run' = [run EXCEPT ![a] =
                      CASE r.phase = "first" -> [r EXCEPT !.has_peers = hp, !.pc = "peers"]
                        [] r.phase = "poll" ->
                             IF hp THEN [r EXCEPT !.pc = "peers"] ELSE PollNext(r)
                        [] r.phase = "retry" ->
                             IF ~r.initiated_conversation /\ hp
                             THEN [r EXCEPT !.pc = "peers"] ELSE RetryRest(r)]
        /\ AgentUnchanged
        /\ UNCHANGED netvars

\* self.websocket.get_peer_ids() and the decision it feeds; `available` is
\* what ollama.is_available() answers if it is asked.
run_get_peer_ids(a, available) ==
    LET r == run[a]
        peers == get_peer_ids(a)
        initiate == should_initiate(a, peers)
        llm == ollama_enabled[a] /\ available
        generating == [r EXCEPT !.pc = "generate", !.peers = peers]
    IN  /\ r.pc = "peers"
        /\ run' = [run EXCEPT ![a] =
                      CASE r.phase = "first" ->
                             IF r.has_peers /\ initiate /\ llm THEN generating ELSE AfterFirst(r)
                        [] r.phase = "poll" ->
                             IF initiate /\ llm
                             THEN [generating EXCEPT !.initiated_conversation = TRUE]
                             ELSE IF ~initiate
                             THEN PollBreak([r EXCEPT !.initiated_conversation = TRUE])
                             ELSE PollNext(r)
                        [] r.phase = "retry" ->
                             IF initiate /\ llm
                             THEN [generating EXCEPT !.initiated_conversation = TRUE]
                             ELSE RetryRest(r)]
        /\ IF r.phase = "first" /\ r.has_peers /\ initiate /\ ~ollama_enabled[a]
           THEN \E value \in RandomValues :
                   /\ link' = broadcast(link, a, Number(AgentId(a), value))
                   /\ log' = [log EXCEPT ![a].numbers = @ + 1]
           ELSE UNCHANGED <<link, log>>
        /\ UNCHANGED <<nodes, peer_addresses, listening, connected_peers, connected_urls,
                       incoming, results, published, ollama_enabled, incoming_rx,
                       conversation_counts, conversation_received_counts,
                       conversation_completed, handler>>

\* ollama.generate(PEER_GREETING_PROMPT) returns to run(): Ok, and the
\* greeting is counted as our first message to every peer of the snapshot;
\* or Err.
run_generate(a, ok) ==
    LET r == run[a]
    IN  /\ r.pc = "generate"
        /\ IF ok
           THEN /\ conversation_counts' =
                       [conversation_counts EXCEPT ![a] =
                           [id \in Ids |-> IF id \in r.peers THEN @[id] + 1 ELSE @[id]]]
                /\ run' = [run EXCEPT ![a].pc = "send"]
           ELSE /\ run' = [run EXCEPT ![a] = AfterGreeting(r)]
                /\ UNCHANGED conversation_counts
        /\ UNCHANGED <<ollama_enabled, incoming_rx, conversation_received_counts,
                       conversation_completed, handler, log>>
        /\ UNCHANGED netvars

\* run() broadcasts the greeting.
run_broadcast(a) ==
    LET r == run[a]
    IN  /\ r.pc = "send"
        /\ link' = broadcast(link, a, Text(AgentId(a), Greeting))
        /\ log' = [log EXCEPT ![a].greetings = @ + 1]
        /\ run' = [run EXCEPT ![a] = AfterGreeting(r)]
        /\ UNCHANGED <<nodes, peer_addresses, listening, connected_peers, connected_urls,
                       incoming, results, published, ollama_enabled, incoming_rx,
                       conversation_counts, conversation_received_counts,
                       conversation_completed, handler>>

\* The retry loop's guard on the connection retries: nothing to do without
\* peer addresses, or when peer_count() has reached their number.
run_retry_connect(a) ==
    LET r == run[a]
    IN  /\ r.pc = "retry_connect"
        /\ run' = [run EXCEPT ![a] =
                      IF Len(peer_addresses[a]) = 0 \/ peer_count(a) >= Len(peer_addresses[a])
                      THEN RetryTop(r)
                      ELSE [r EXCEPT !.pc = "retry_each", !.i = 1]]
        /\ AgentUnchanged
        /\ UNCHANGED netvars

\* The retry loop's pass over peer_addresses: an address that is connected
\* is skipped.
run_retry_skip(a) ==
    LET r == run[a]
    IN  /\ r.pc = "retry_each"
        /\ NoCall(a)
        /\ run' = [run EXCEPT ![a] =
                      IF r.i > Len(peer_addresses[a]) THEN RetryTop(r)
                      ELSE [r EXCEPT !.i = r.i + 1]]
        /\ r.i <= Len(peer_addresses[a]) =>
              \/ is_connected_to_url(a, peer_addresses[a][r.i])
              \/ Called(a, peer_addresses[a][r.i]) >= MaxCalls
        /\ AgentUnchanged
        /\ UNCHANGED netvars

\* The retry loop's pass over peer_addresses: connect_to_peer is called
\* again for an address that is not connected.
run_retry_call(a) ==
    LET r == run[a]
    IN  /\ r.pc = "retry_each"
        /\ NoCall(a)
        /\ r.i <= Len(peer_addresses[a])
        /\ Called(a, peer_addresses[a][r.i]) < MaxCalls
        /\ connect_to_peer_begin(a, peer_addresses[a][r.i])
        /\ run' = [run EXCEPT ![a].i = r.i + 1]
        /\ AgentUnchanged

\* ------------------------------------------------------------ test driver
\* tests/peer_communication.rs drives WebSocketServer directly: it starts
\* servers and calls connect_to_peer and broadcast on them.

Range(f) == {f[i] : i \in DOMAIN f}

\* The messages the driver lets process p broadcast.
AppMessages(p) == {Number(AgentId(p), 42), Text(AgentId(p), "hello")}

\* The peers an established, open link of p leads to.
LinkedPeers(p) ==
    {link[l].acc : l \in {k \in Links : link[k].conn = p /\ link[k].cst = "up" /\ link[k].open}}
    \cup {link[l].conn : l \in {k \in Links : link[k].acc = p /\ link[k].cst = "up" /\ link[k].open}}

test_connect(c, url) ==
    /\ c \in nodes
    /\ run[c].pc = "off"
    /\ url \in Range(peer_addresses[c])
    /\ Called(c, url) < MaxCalls
    /\ \/ connect_to_peer_already(c, url)
       \/ connect_to_peer_begin(c, url)

\* broadcast(m) by the driver; `published` keeps the message with the peers
\* that had an established link to p at that time.
test_broadcast(p, m) ==
    /\ p \in nodes
    /\ run[p].pc = "off"
    /\ Len(published[p]) < MaxBroadcasts
    /\ link' = broadcast(link, p, m)
    /\ published' = [published EXCEPT ![p] = Append(@, [msg |-> m, to |-> LinkedPeers(p)])]
    /\ UNCHANGED <<nodes, peer_addresses, listening, connected_peers, connected_urls,
                   incoming, results>>

\* The lengths of the driver's bursts: one frame, or one frame more than the
\* broadcast channel retains.
BurstSizes == {1, BROADCAST_CAPACITY + 1}

\* n broadcast(m) calls in a row on the link table lk.
broadcast_n(lk, p, m, n) == tx_send_all(lk, p, [i \in 1 .. n |-> to_string(m)])

\* The driver's burst: a task calls broadcast(Number) n times in a row on p's
\* server (broadcast() never suspends, so no other task runs in between).
test_flood(p, n) ==
    /\ p \in nodes
    /\ run[p].pc = "off"
    /\ Len(published[p]) < MaxFlood
    /\ link' = broadcast_n(link, p, Number(AgentId(p), 42), n)
    /\ published' = [published EXCEPT ![p] =
                        Append(@, [msg |-> Number(AgentId(p), 42), to |-> LinkedPeers(p),
                                   count |-> n])]
    /\ UNCHANGED <<nodes, peer_addresses, listening, connected_peers, connected_urls,
                   incoming, results>>

\* The seq values of the driver's Pings.
PingSeqs == {0, 7}

\* The messages the driver lets process p broadcast one after the other.
WireMessages(p) == {Ping(AgentId(p), seq) : seq \in PingSeqs} \cup {Text(AgentId(p), "hello")}

\* The raw frames among what the driver sent from process p.
Raws(p) == {i \in DOMAIN published[p] : published[p][i].msg = ParseError}

\* broadcast(m) by the driver, as one of a sequence of calls.
test_publish(p, m) ==
    /\ p \in nodes
    /\ run[p].pc = "off"
    /\ Len(published[p]) - Cardinality(Raws(p)) < MaxPublishes
    /\ link' = broadcast(link, p, m)
    /\ published' = [published EXCEPT ![p] = Append(@, [msg |-> m, to |-> LinkedPeers(p)])]
    /\ UNCHANGED <<nodes, peer_addresses, listening, connected_peers, connected_urls,
                   incoming, results>>

\* Text frames that do not deserialize as an AgentMessage: an unknown "type"
\* tag, and a known tag without the variant's fields.
Malformed == {[type |-> "hello", agent_id |-> NoId], [type |-> "ping", agent_id |-> NoId]}

\* The driver writes the text frame w on the open socket of link l, from the
\* connecting end (to handle_incoming) or from the accepting end (to the ack
\* wait or the reader task); `published` keeps it as a message that does not
\* parse.
test_raw(l, from_connector, w) ==
    LET r == link[l]
        p == IF from_connector THEN r.conn ELSE r.acc
        q == IF from_connector THEN r.acc ELSE r.conn
    IN  /\ r.open
        /\ r.cst \in {"ackwait", "up"}
        /\ Cardinality(Raws(p)) < MaxRaw
        /\ link' = IF from_connector
                   THEN [link EXCEPT ![l].c2a = Append(@, w)]
                   ELSE [link EXCEPT ![l].a2c = Append(@, w)]
        /\ published' = [published EXCEPT ![p] =
                            Append(@, [msg |-> ParseError, to |-> {q}, raw |-> w])]
        /\ UNCHANGED <<nodes, peer_addresses, listening, connected_peers, connected_urls,
                       incoming, results>>

\* rx.recv() by the driver on the receiver it took from p's server.
test_recv(p) ==
    /\ p \in nodes
    /\ run[p].pc = "off"
    /\ incoming[p] # <<>>
    /\ incoming' = [incoming EXCEPT ![p] = Tail(@)]
    /\ UNCHANGED <<nodes, peer_addresses, listening, connected_peers, connected_urls,
                   link, results, published>>

\* take_incoming_receiver() called on a clone of p's server by a task other
\* than run().
test_take(p) ==
    LET taken == take_incoming_receiver(incoming_rx[p])
    IN  /\ p \in nodes
        /\ Len(log[p].takes) < MaxTakes
        /\ incoming_rx' = [incoming_rx EXCEPT ![p] = taken.left]
        /\ log' = [log EXCEPT ![p].takes = Append(@, Took("test", taken.returned))]
        /\ UNCHANGED <<ollama_enabled, conversation_counts, conversation_received_counts,
                       conversation_completed, run, handler>>
        /\ UNCHANGED netvars

\* ---------------------------------------------------------- specifications

\* The state after WebSocketServer::new / Agent::new on every process.
NewServers ==
    /\ listening = [p \in Procs |-> FALSE]
    /\ connected_peers = [p \in Procs |-> {}]
    /\ connected_urls = [p \in Procs |-> {}]
    /\ incoming = [p \in Procs |-> <<>>]
    /\ incoming_rx = [p \in Procs |-> TRUE]
    /\ link = [l \in Links |-> FreeLink]
    /\ results = [p \in Procs |-> [calls |-> <<>>, returns |-> <<>>]]
    /\ published = [p \in Procs |-> <<>>]
    /\ conversation_counts = [p \in Procs |-> [id \in Ids |-> 0]]
    /\ conversation_received_counts = [p \in Procs |-> [id \in Ids |-> 0]]
    /\ conversation_completed = [p \in Procs |-> {}]
    /\ handler = [p \in Procs |-> NoHandler]
    /\ log = [p \in Procs |-> NewLog]

\* Two servers under the test driver; server 1 is told to connect to
\* server 2.
Init ==
    /\ nodes = {1, 2}
    /\ peer_addresses = [p \in Procs |-> IF p = 1 THEN <<2>> ELSE <<>>]
    /\ ollama_enabled = [p \in Procs |-> FALSE]
    /\ run = [p \in Procs |-> NoRun]
    /\ NewServers

\* The servers under the test driver, with every way a link can fail.
Next ==
    \/ \E p \in Procs : start(p) /\ UNCHANGED agentvars
    \/ \E c \in Procs, url \in Procs : test_connect(c, url) /\ UNCHANGED agentvars
    \/ \E l \in Links : connect_async_ok(l) /\ UNCHANGED agentvars
    \/ \E l \in Links : connect_async_err(l) /\ UNCHANGED agentvars
    \/ \E l \in Links : connect_async_timeout(l) /\ UNCHANGED agentvars
    \/ \E l \in Links : ack_wait_read(l) /\ UNCHANGED agentvars
    \/ \E l \in Links : ack_wait_closed(l) /\ UNCHANGED agentvars
    \/ \E l \in Links : ack_wait_timeout(l) /\ UNCHANGED agentvars
    \/ \E l \in Links : reader_task_read(l) /\ UNCHANGED agentvars
    \/ \E l \in Links : reader_task_end(l) /\ UNCHANGED agentvars
    \/ \E l \in Links : handle_incoming_read(l) /\ UNCHANGED agentvars
    \/ \E l \in Links : handle_incoming_end(l) /\ UNCHANGED agentvars
    \/ \E l \in Links : socket_close(l) /\ UNCHANGED agentvars

Spec == Init /\ [][Next]_vars

\* The servers under the test driver when nothing fails: no socket closes
\* and no timeout fires; a connect attempt fails only for want of a listener.
NominalNext ==
    \/ \E p \in Procs : start(p) /\ UNCHANGED agentvars
    \/ \E c \in Procs, url \in Procs : test_connect(c, url) /\ UNCHANGED agentvars
    \/ \E p \in Procs : \E m \in AppMessages(p) : test_broadcast(p, m) /\ UNCHANGED agentvars
    \/ \E l \in Links : connect_async_ok(l) /\ UNCHANGED agentvars
    \/ \E l \in Links : connect_async_err(l) /\ UNCHANGED agentvars
    \/ \E l \in Links : ack_wait_read(l) /\ UNCHANGED agentvars
    \/ \E l \in Links : reader_task_read(l) /\ UNCHANGED agentvars
    \/ \E l \in Links : handle_incoming_read(l) /\ UNCHANGED agentvars

\* The runtime runs every spawned task that can make progress, and every
\* pending connect attempt and read completes.
NominalFairness ==
    \A l \in Links :
        /\ WF_vars(connect_async_ok(l) /\ UNCHANGED agentvars)
        /\ WF_vars(connect_async_err(l) /\ UNCHANGED agentvars)
        /\ WF_vars(ack_wait_read(l) /\ UNCHANGED agentvars)
        /\ WF_vars(reader_task_read(l) /\ UNCHANGED agentvars)
        /\ WF_vars(handle_incoming_read(l) /\ UNCHANGED agentvars)

NominalSpec == Init /\ [][NominalNext]_vars /\ NominalFairness

\* Two agents with the LLM backend enabled; agent 1 is configured with
\* agent 2's address.
ChatInit ==
    /\ nodes = {1, 2}
    /\ peer_addresses = [p \in Procs |-> IF p = 1 THEN <<2>> ELSE <<>>]
    /\ ollama_enabled = [p \in Procs |-> p \in {1, 2}]
    /\ run = [p \in Procs |-> IF p \in {1, 2} THEN NewRun ELSE NoRun]
    /\ NewServers

\* The steps of Agent::run on process a when the LLM backend always answers.
RunStep(a) ==
    \/ run_start(a)
    \/ run_connect(a)
    \/ run_take(a)
    \/ run_has_peers(a)
    \/ run_get_peer_ids(a, TRUE)
    \/ run_generate(a, TRUE)
    \/ run_broadcast(a)
    \/ run_retry_connect(a)
    \/ run_retry_skip(a)
    \/ run_retry_call(a)

\* The steps of the handler task of process a when the LLM backend always
\* answers.
HandlerStep(a) ==
    \/ handler_recv(a, TRUE)
    \/ handler_generate(a, TRUE)
    \/ handler_broadcast(a)

\* Agents whose LLM backend always answers, on a network where nothing
\* fails.
ChatNext ==
    \/ \E a \in Procs : run_start(a)
    \/ \E a \in Procs : run_connect(a)
    \/ \E a \in Procs : run_take(a)
    \/ \E a \in Procs : run_has_peers(a)
    \/ \E a \in Procs : run_get_peer_ids(a, TRUE)
    \/ \E a \in Procs : run_generate(a, TRUE)
    \/ \E a \in Procs : run_broadcast(a)
    \/ \E a \in Procs : run_retry_connect(a)
    \/ \E a \in Procs : run_retry_skip(a)
    \/ \E a \in Procs : run_retry_call(a)
    \/ \E a \in Procs : handler_recv(a, TRUE)
    \/ \E a \in Procs : handler_generate(a, TRUE)
    \/ \E a \in Procs : handler_broadcast(a)
    \/ \E l \in Links : connect_async_ok(l) /\ UNCHANGED agentvars
    \/ \E l \in Links : connect_async_err(l) /\ UNCHANGED agentvars
    \/ \E l \in Links : ack_wait_read(l) /\ UNCHANGED agentvars
    \/ \E l \in Links : reader_task_read(l) /\ UNCHANGED agentvars
    \/ \E l \in Links : handle_incoming_read(l) /\ UNCHANGED agentvars

\* The runtime runs run() and the handler task of every agent, and every
\* task of every link.
ChatFairness ==
    /\ \A a \in Procs : WF_vars(RunStep(a)) /\ WF_vars(HandlerStep(a))
    /\ NominalFairness

ChatSpec == ChatInit /\ [][ChatNext]_vars /\ ChatFairness

\* Three agents in a chain: agent 1 is configured with agent 2's address and
\* agent 2 with agent 3's; agents 1 and 2 have the LLM backend enabled.
TrioInit ==
    /\ nodes = {1, 2, 3}
    /\ peer_addresses = [p \in Procs |-> IF p = 1 THEN <<2>> ELSE IF p = 2 THEN <<3>> ELSE <<>>]
    /\ ollama_enabled = [p \in Procs |-> p \in {1, 2}]
    /\ run = [p \in Procs |-> NewRun]
    /\ NewServers

\* The three agents when the LLM backend always answers, nothing fails, and
\* every listener is up before a connect attempt to it gives up.
TrioNext ==
    \/ \E a \in Procs : run_start(a)
    \/ \E a \in Procs : run_connect(a)
    \/ \E a \in Procs : run_take(a)
    \/ \E a \in Procs : run_has_peers(a)
    \/ \E a \in Procs : run_get_peer_ids(a, TRUE)
    \/ \E a \in Procs : run_generate(a, TRUE)
    \/ \E a \in Procs : run_broadcast(a)
    \/ \E a \in Procs : run_retry_connect(a)
    \/ \E a \in Procs : handler_recv(a, TRUE)
    \/ \E a \in Procs : handler_generate(a, TRUE)
    \/ \E a \in Procs : handler_broadcast(a)
    \/ \E l \in Links : connect_async_ok(l) /\ UNCHANGED agentvars
    \/ \E l \in Links : ack_wait_read(l) /\ UNCHANGED agentvars
    \/ \E l \in Links : reader_task_read(l) /\ UNCHANGED agentvars
    \/ \E l \in Links : handle_incoming_read(l) /\ UNCHANGED agentvars

TrioSpec == TrioInit /\ [][TrioNext]_vars

\* The two agents of ChatInit on a network whose sockets may close at any
\* time.
FaultyChatNext ==
    \/ ChatNext
    \/ \E l \in Links : socket_close(l) /\ UNCHANGED agentvars
    \/ \E l \in Links : ack_wait_closed(l) /\ UNCHANGED agentvars
    \/ \E l \in Links : reader_task_end(l) /\ UNCHANGED agentvars
    \/ \E l \in Links : handle_incoming_end(l) /\ UNCHANGED agentvars

FaultyChatSpec == ChatInit /\ [][FaultyChatNext]_vars

\* Two servers under the test driver, each told to connect to the other.
MutualInit ==
    /\ nodes = {1, 2}
    /\ peer_addresses = [p \in Procs |-> IF p = 1 THEN <<2>> ELSE IF p = 2 THEN <<1>> ELSE <<>>]
    /\ ollama_enabled = [p \in Procs |-> FALSE]
    /\ run = [p \in Procs |-> NoRun]
    /\ NewServers

\* The two servers on a network whose sockets may close at any time; a
\* connect attempt waits for the listener.
MutualNext ==
    \/ \E p \in Procs : start(p) /\ UNCHANGED agentvars
    \/ \E c \in Procs, url \in Procs : test_connect(c, url) /\ UNCHANGED agentvars
    \/ \E l \in Links : connect_async_ok(l) /\ UNCHANGED agentvars
    \/ \E l \in Links : ack_wait_read(l) /\ UNCHANGED agentvars
    \/ \E l \in Links : ack_wait_closed(l) /\ UNCHANGED agentvars
    \/ \E l \in Links : reader_task_read(l) /\ UNCHANGED agentvars
    \/ \E l \in Links : reader_task_end(l) /\ UNCHANGED agentvars
    \/ \E l \in Links : handle_incoming_read(l) /\ UNCHANGED agentvars
    \/ \E l \in Links : handle_incoming_end(l) /\ UNCHANGED agentvars
    \/ \E l \in Links : socket_close(l) /\ UNCHANGED agentvars

MutualSpec == MutualInit /\ [][MutualNext]_vars

\* The two servers told to connect to each other, when nothing fails.
MeshSpec == MutualInit /\ [][NominalNext]_vars /\ NominalFairness

\* Three servers under the test driver in a chain: server 1 is told to
\* connect to server 2 and server 2 to server 3.
ChainInit ==
    /\ nodes = {1, 2, 3}
    /\ peer_addresses = [p \in Procs |-> IF p = 1 THEN <<2>> ELSE IF p = 2 THEN <<3>> ELSE <<>>]
    /\ ollama_enabled = [p \in Procs |-> FALSE]
    /\ run = [p \in Procs |-> NoRun]
    /\ NewServers

\* The chain when nothing fails and every listener is up before a connect
\* attempt to it gives up; the driver broadcasts at the two ends of the chain.
ChainNext ==
    \/ \E p \in Procs : start(p) /\ UNCHANGED agentvars
    \/ \E c \in Procs, url \in Procs : test_connect(c, url) /\ UNCHANGED agentvars
    \/ \E p \in {1, 3} : \E m \in AppMessages(p) : test_broadcast(p, m) /\ UNCHANGED agentvars
    \/ \E l \in Links : connect_async_ok(l) /\ UNCHANGED agentvars
    \/ \E l \in Links : ack_wait_read(l) /\ UNCHANGED agentvars
    \/ \E l \in Links : reader_task_read(l) /\ UNCHANGED agentvars
    \/ \E l \in Links : handle_incoming_read(l) /\ UNCHANGED agentvars

\* The runtime runs every spawned task that can make progress, and every
\* pending connect attempt and read completes.
ChainFairness ==
    \A l \in Links :
        /\ WF_vars(connect_async_ok(l) /\ UNCHANGED agentvars)
        /\ WF_vars(ack_wait_read(l) /\ UNCHANGED agentvars)
        /\ WF_vars(reader_task_read(l) /\ UNCHANGED agentvars)
        /\ WF_vars(handle_incoming_read(l) /\ UNCHANGED agentvars)

ChainSpec == ChainInit /\ [][ChainNext]_vars /\ ChainFairness

\* The two agents of ChatInit while other tasks call take_incoming_receiver
\* on clones of their servers.
TakeNext ==
    \/ ChatNext
    \/ \E p \in Procs : test_take(p)

TakeSpec == ChatInit /\ [][TakeNext]_vars

\* Two agents with the LLM backend enabled: agent 1 is configured with agent 2's
\* address and agent 2 with the address of a third agent that is never
\* started.
DownPeerInit ==
    /\ nodes = {1, 2}
    /\ peer_addresses = [p \in Procs |-> IF p = 1 THEN <<2>> ELSE IF p = 2 THEN <<3>> ELSE <<>>]
    /\ ollama_enabled = [p \in Procs |-> p \in {1, 2}]
    /\ run = [p \in Procs |-> IF p \in {1, 2} THEN NewRun ELSE NoRun]
    /\ NewServers

DownPeerSpec == DownPeerInit /\ [][ChatNext]_vars

\* The two servers of Init when nothing fails: the driver awaits each
\* connect_to_peer call before it makes the next one, while another of its
\* tasks publishes bursts on server 1 and single frames on server 2.
BurstNext ==
    \/ \E p \in Procs : start(p) /\ UNCHANGED agentvars
    \/ \E c \in Procs, url \in Procs :
           NoCall(c) /\ test_connect(c, url) /\ UNCHANGED agentvars
    \/ \E n \in BurstSizes : test_flood(1, n) /\ UNCHANGED agentvars
    \/ test_flood(2, 1) /\ UNCHANGED agentvars
    \/ \E l \in Links : connect_async_ok(l) /\ UNCHANGED agentvars
    \/ \E l \in Links : ack_wait_read(l) /\ UNCHANGED agentvars
    \/ \E l \in Links : reader_task_read(l) /\ UNCHANGED agentvars
    \/ \E l \in Links : handle_incoming_read(l) /\ UNCHANGED agentvars

BurstSpec == Init /\ [][BurstNext]_vars

\* Two agents; agent 1 is configured with agent 2's address.  Agent 2 has
\* the LLM backend enabled, agent 1 has it enabled or disabled.
FallbackInit ==
    /\ nodes = {1, 2}
    /\ peer_addresses = [p \in Procs |-> IF p = 1 THEN <<2>> ELSE <<>>]
    /\ ollama_enabled \in {[p \in Procs |-> p \in on] : on \in {{2}, {1, 2}}}
    /\ run = [p \in Procs |-> IF p \in {1, 2} THEN NewRun ELSE NoRun]
    /\ NewServers

\* The agents when the LLM backend may or may not be reachable each time it
\* is asked, on a network where nothing fails.
FallbackNext ==
    \/ \E a \in Procs : run_start(a)
    \/ \E a \in Procs : run_connect(a)
    \/ \E a \in Procs : run_take(a)
    \/ \E a \in Procs : run_has_peers(a)
    \/ \E a \in Procs, available \in BOOLEAN : run_get_peer_ids(a, available)
    \/ \E a \in Procs, ok \in BOOLEAN : run_generate(a, ok)
    \/ \E a \in Procs : run_broadcast(a)
    \/ \E a \in Procs : run_retry_connect(a)
    \/ \E a \in Procs : run_retry_skip(a)
    \/ \E a \in Procs : run_retry_call(a)
    \/ \E a \in Procs, available \in BOOLEAN : handler_recv(a, available)
    \/ \E a \in Procs, ok \in BOOLEAN : handler_generate(a, ok)
    \/ \E a \in Procs : handler_broadcast(a)
    \/ \E l \in Links : connect_async_ok(l) /\ UNCHANGED agentvars
    \/ \E l \in Links : connect_async_err(l) /\ UNCHANGED agentvars
    \/ \E l \in Links : ack_wait_read(l) /\ UNCHANGED agentvars
    \/ \E l \in Links : reader_task_read(l) /\ UNCHANGED agentvars
    \/ \E l \in Links : handle_incoming_read(l) /\ UNCHANGED agentvars

FallbackSpec == FallbackInit /\ [][FallbackNext]_vars

\* The two servers of Init under a driver that calls connect_to_peer once,
\* broadcasts Ping and Text messages on the server that connects and writes
\* raw frames on the sockets.
WireNext ==
    \/ \E p \in Procs : start(p) /\ UNCHANGED agentvars
    \/ \E c \in Procs, url \in Procs :
           results[c].calls = <<>> /\ test_connect(c, url) /\ UNCHANGED agentvars
    \/ \E m \in WireMessages(1) : test_publish(1, m) /\ UNCHANGED agentvars
    \/ \E l \in Links, from_connector \in BOOLEAN, w \in Malformed :
           test_raw(l, from_connector, w) /\ UNCHANGED agentvars
    \/ \E l \in Links : connect_async_ok(l) /\ UNCHANGED agentvars
    \/ \E l \in Links : ack_wait_read(l) /\ UNCHANGED agentvars
    \/ \E l \in Links : reader_task_read(l) /\ UNCHANGED agentvars
    \/ \E l \in Links : handle_incoming_read(l) /\ UNCHANGED agentvars

WireSpec == Init /\ [][WireNext]_vars

\* The two servers of Init under a driver that awaits each connect_to_peer
\* call while the server that accepts broadcasts Number and Text messages;
\* the ack wait may time out.
AckWaitNext ==
    \/ \E p \in Procs : start(p) /\ UNCHANGED agentvars
    \/ \E c \in Procs, url \in Procs :
           NoCall(c) /\ test_connect(c, url) /\ UNCHANGED agentvars
    \/ published[2] = <<>> /\ test_flood(2, INCOMING_CAPACITY) /\ UNCHANGED agentvars
    \/ test_recv(1) /\ UNCHANGED agentvars
    \/ \E l \in Links : connect_async_ok(l) /\ UNCHANGED agentvars
    \/ \E l \in Links : ack_wait_read(l) /\ UNCHANGED agentvars
    \/ \E l \in Links : ack_wait_send(l) /\ UNCHANGED agentvars
    \/ \E l \in Links : ack_wait_timeout(l) /\ UNCHANGED agentvars
    \/ \E l \in Links : reader_task_read(l) /\ UNCHANGED agentvars
    \/ \E l \in Links : handle_incoming_read(l) /\ UNCHANGED agentvars

AckWaitSpec == Init /\ [][AckWaitNext]_vars

\* Servers 1 and 2 broadcast application messages while agent-1 makes its
\* one call to agent-2: a single link, no failure, nobody reads the delivery
\* queues.
OrderNext ==
    \/ \E p \in Procs : start(p) /\ UNCHANGED agentvars
    \/ results[1].calls = <<>> /\ test_connect(1, 2) /\ UNCHANGED agentvars
    \/ \E p \in {1, 2} : \E m \in AppMessages(p) : test_publish(p, m) /\ UNCHANGED agentvars
    \/ \E l \in Links : connect_async_ok(l) /\ UNCHANGED agentvars
    \/ \E l \in Links : ack_wait_read(l) /\ UNCHANGED agentvars
    \/ \E l \in Links : reader_task_read(l) /\ UNCHANGED agentvars
    \/ \E l \in Links : handle_incoming_read(l) /\ UNCHANGED agentvars

OrderSpec == Init /\ [][OrderNext]_vars

\* One agent with two peer addresses: agent-1 runs and is configured with
\* the addresses of servers 2 and 3, which the driver starts at some point;
\* no LLM.
FanInit ==
    /\ nodes = {1, 2, 3}
    /\ peer_addresses = [p \in Procs |-> IF p = 1 THEN <<2, 3>> ELSE <<>>]
    /\ ollama_enabled = [p \in Procs |-> FALSE]
    /\ run = [p \in Procs |-> IF p = 1 THEN NewRun ELSE NoRun]
    /\ NewServers

\* agent-1's run() and handler, the two servers, and connect attempts that
\* succeed, are refused, or run into one of their timeouts.
FanNext ==
    \/ \E a \in Procs : run_start(a)
    \/ \E a \in Procs : run_connect(a)
    \/ \E a \in Procs : run_take(a)
    \/ \E a \in Procs : run_has_peers(a)
    \/ \E a \in Procs : run_get_peer_ids(a, FALSE)
    \/ \E a \in Procs : run_retry_connect(a)
    \/ \E a \in Procs : run_retry_skip(a)
    \/ \E a \in Procs : run_retry_call(a)
    \/ \E a \in Procs : handler_recv(a, FALSE)
    \/ \E p \in Procs : start(p) /\ UNCHANGED agentvars
    \/ \E l \in Links : connect_async_ok(l) /\ UNCHANGED agentvars
    \/ \E l \in Links : connect_async_err(l) /\ UNCHANGED agentvars
    \/ \E l \in Links : connect_async_timeout(l) /\ UNCHANGED agentvars
    \/ \E l \in Links : ack_wait_read(l) /\ UNCHANGED agentvars
    \/ \E l \in Links : ack_wait_timeout(l) /\ UNCHANGED agentvars
    \/ \E l \in Links : reader_task_read(l) /\ UNCHANGED agentvars
    \/ \E l \in Links : handle_incoming_read(l) /\ UNCHANGED agentvars

FanSpec == FanInit /\ [][FanNext]_vars

\* Two agents with the LLM enabled; agent-2 is configured with agent-1's
\* address, so that agent-1, the one that initiates, gets its peer from an
\* inbound connection: before its first check, during its poll loop, or in
\* its retry loop.
InboundInit ==
    /\ nodes = {1, 2}
    /\ peer_addresses = [p \in Procs |-> IF p = 2 THEN <<1>> ELSE <<>>]
    /\ ollama_enabled = [p \in Procs |-> p \in {1, 2}]
    /\ run = [p \in Procs |-> IF p \in {1, 2} THEN NewRun ELSE NoRun]
    /\ NewServers

InboundSpec == InboundInit /\ [][FallbackNext]_vars

\* Three servers under the test driver: agent-1 and agent-3 are both told to
\* connect to agent-2, so that agent-2's broadcast channel serves two
\* accepted links.
StarInit ==
    /\ nodes = {1, 2, 3}
    /\ peer_addresses = [p \in Procs |-> IF p \in {1, 3} THEN <<2>> ELSE <<>>]
    /\ ollama_enabled = [p \in Procs |-> FALSE]
    /\ run = [p \in Procs |-> NoRun]
    /\ NewServers

\* The three servers when nothing fails; agent-2, which accepts, is the one
\* that broadcasts.
StarNext ==
    \/ \E p \in Procs : start(p) /\ UNCHANGED agentvars
    \/ \E c \in Procs, url \in Procs : test_connect(c, url) /\ UNCHANGED agentvars
    \/ \E m \in AppMessages(2) : test_broadcast(2, m) /\ UNCHANGED agentvars
    \/ \E l \in Links : connect_async_ok(l) /\ UNCHANGED agentvars
    \/ \E l \in Links : ack_wait_read(l) /\ UNCHANGED agentvars
    \/ \E l \in Links : reader_task_read(l) /\ UNCHANGED agentvars
    \/ \E l \in Links : handle_incoming_read(l) /\ UNCHANGED agentvars

StarSpec == StarInit /\ [][StarNext]_vars

\* The two servers of Init under a driver that calls connect_to_peer once,
\* broadcasts Numbers from the server that connects, and may or may
\* not read the delivery queue of the server that accepts once it is full;
\* sockets may close and the ack wait may time out.
StaleNext ==
    \/ \E p \in Procs : start(p) /\ UNCHANGED agentvars
    \/ \E c \in Procs, url \in Procs :
           results[c].calls = <<>> /\ test_connect(c, url) /\ UNCHANGED agentvars
    \/ /\ test_flood(1, IF published[1] = <<>> THEN INCOMING_CAPACITY ELSE 1)
       /\ UNCHANGED agentvars
    \/ ~CanSend(2) /\ test_recv(2) /\ UNCHANGED agentvars
    \/ \E l \in Links : connect_async_ok(l) /\ UNCHANGED agentvars
    \/ \E l \in Links : ack_wait_read(l) /\ UNCHANGED agentvars
    \/ \E l \in Links : ack_wait_timeout(l) /\ UNCHANGED agentvars
    \/ \E l \in Links : reader_task_end(l) /\ UNCHANGED agentvars
    \/ \E l \in Links : handle_incoming_read(l) /\ UNCHANGED agentvars
    \/ \E l \in Links : handle_incoming_hold(l) /\ UNCHANGED agentvars
    \/ \E l \in Links : handle_incoming_send(l) /\ UNCHANGED agentvars
    \/ \E l \in Links : handle_incoming_end(l) /\ UNCHANGED agentvars
    \/ \E l \in Links : socket_close(l) /\ UNCHANGED agentvars

\* The runtime runs every spawned task that can make progress; nothing makes
\* the driver read the delivery queue, and nothing makes a socket close.
StaleFairness ==
    \A l \in Links :
        /\ WF_vars(connect_async_ok(l) /\ UNCHANGED agentvars)
        /\ WF_vars(ack_wait_read(l) /\ UNCHANGED agentvars)
        /\ WF_vars(reader_task_end(l) /\ UNCHANGED agentvars)
        /\ WF_vars(handle_incoming_read(l) /\ UNCHANGED agentvars)
        /\ WF_vars(handle_incoming_hold(l) /\ UNCHANGED agentvars)
        /\ WF_vars(handle_incoming_send(l) /\ UNCHANGED agentvars)
        /\ WF_vars(handle_incoming_end(l) /\ UNCHANGED agentvars)

StaleSpec == Init /\ [][StaleNext]_vars /\ StaleFairness

\* ------------------------------------------------------------------ claims

\* The open outbound links of c to url whose handshake is complete.
LiveOutbound(c, url) ==
    {l \in Links : link[l].conn = c /\ link[l].acc = url /\ link[l].cst = "up" /\ link[l].open}

\* A step in which c calls connect_to_peer(url) while url is in
\* connected_urls.
CallsConnected(c, url) ==
    /\ results'[c].calls = Append(results[c].calls, url)
    /\ url \in connected_urls[c]

\* What such a call does: it returns Connected(url) in the same step, opens
\* no socket, writes no frame and leaves both registries as they are.
ReturnsAtOnce(c, url) ==
    /\ results'[c].returns = Append(results[c].returns, <<url, "Connected">>)
    /\ link' = link
    /\ incoming' = incoming
    /\ connected_peers' = connected_peers
    /\ connected_urls' = connected_urls

\* C2 as stated: a connect_to_peer call for a url that is in connected_urls
\* returns Connected without a second socket or Presence and without a
\* change of the registries, and exactly one live outbound link to the url
\* exists after it.
C2_ExactlyOneLiveLink ==
    [][\A c \in Procs, url \in Procs :
          CallsConnected(c, url) =>
              /\ ReturnsAtOnce(c, url)
              /\ Cardinality({l \in Links : link'[l].conn = c /\ link'[l].acc = url
                                             /\ link'[l].cst = "up" /\ link'[l].open}) = 1]_vars

\* C2 amended: a connect_to_peer call for a url that is in connected_urls
\* returns Connected without a second socket or Presence and without a
\* change of the registries; it adds no link: the live outbound links to the
\* url are the same after it as before it.
C2_IdempotentConnect ==
    [][\A c \in Procs, url \in Procs :
          CallsConnected(c, url) =>
              /\ ReturnsAtOnce(c, url)
              /\ {l \in Links : link'[l].conn = c /\ link'[l].acc = url
                                 /\ link'[l].cst = "up" /\ link'[l].open}
                 = LiveOutbound(c, url)]_vars

\* C2 witness: a second call has returned Connected at once while the link
\* the first call made is the only one.
C2_Witness ==
    \E c \in Procs, url \in Procs :
        /\ results[c].calls = <<url, url>>
        /\ results[c].returns = <<<<url, "Connected">>, <<url, "Connected">>>>
        /\ Cardinality(LiveOutbound(c, url)) = 1
        /\ Cardinality({l \in Links : link[l].cst # "free"}) = 1

\* A step of the connect_to_peer call that runs on link slot l: the call
\* starts, connect_async ends, the ack wait reads a frame, the call returns.
CallStep(l) ==
    \/ /\ link[l].cst \in {"free", "connecting", "ackwait"}
       /\ link'[l].cst # link[l].cst
    \/ /\ link[l].cst = "ackwait"
       /\ link'[l].cst = "ackwait"
       /\ Len(link'[l].a2c) < Len(link[l].a2c)

\* The caller of the call on link slot l in this step.
Caller(l) == IF link[l].cst = "free" THEN link'[l].conn ELSE link[l].conn

\* C3: a connect_to_peer call that returns Failed leaves the caller's
\* connected_peers and connected_urls as they were: no step of a call changes
\* them unless it is the step that returns Connected, and a process none of
\* whose calls returned Connected (and that accepted no link) has no peers
\* and no urls.
C3_FailedLeavesRegistry ==
    /\ [][\A l \in Links :
             CallStep(l) /\ link'[l].cst # "up" =>
                 /\ connected_peers'[Caller(l)] = connected_peers[Caller(l)]
                 /\ connected_urls'[Caller(l)] = connected_urls[Caller(l)]]_vars
    /\ [](\A c \in Procs :
             (/\ \A k \in DOMAIN results[c].returns : results[c].returns[k][2] = "Failed"
              /\ \A l \in Links : link[l].acc # c)
             => ~has_peers(c) /\ connected_urls[c] = {})

\* C3 witness: a call failed with the socket open (handshake timeout or
\* stream end) after another call of the same process had registered the
\* peer, and the registries still hold that peer and url.
C3_Witness ==
    \E c \in Procs, url \in Procs :
        /\ results[c].returns = <<<<url, "Connected">>, <<url, "Failed">>>>
        /\ connected_peers[c] = {AgentId(url)}
        /\ connected_urls[c] = {url}
        /\ Len(incoming[c]) > 1

\* Process a's call to url b returned Connected.
GotConnected(a, b) == <<b, "Connected">> \in Range(results[a].returns)

\* a and b list each other and nobody else.
ListEachOther(a, b) ==
    /\ AgentId(b) \in get_peer_ids(a)
    /\ AgentId(a) \in get_peer_ids(b)
    /\ peer_count(a) = 1
    /\ peer_count(b) = 1

\* C1: handshake symmetry.  In the two-process topology, when nothing fails,
\* once A's connect_to_peer on B's url has returned Connected the system
\* settles in a state where A lists B's identity, B lists A's identity, and
\* both count one peer.
C1_HandshakeSymmetry ==
    \A a \in Procs, b \in Procs :
        [](GotConnected(a, b) => <>[]ListEachOther(a, b))

\* C1 witness: the call returned Connected, every frame of the handshake has
\* been read, and the two sides list each other.
C1_Witness ==
    /\ results[1].returns = <<<<2, "Connected">>>>
    /\ ListEachOther(1, 2)
    /\ \E l \in Links : link[l].cst = "up" /\ link[l].a2c = <<>> /\ link[l].c2a = <<>>
    /\ Cardinality({l \in Links : link[l].cst # "free"}) = 1

\* A first call of a to url b failed and a second one is under way while
\* b's listener is up.
RetriedAfterStart(a, b) ==
    /\ results[a].calls = <<b, b>>
    /\ results[a].returns = <<<<b, "Failed">>>>
    /\ listening[b]

\* The second call returned Connected and each side has the other's identity.
RetryConverged(a, b) ==
    /\ results[a].returns = <<<<b, "Failed">>, <<b, "Connected">>>>
    /\ AgentId(b) \in connected_peers[a]
    /\ AgentId(a) \in connected_peers[b]

\* C4: retry convergence.  When nothing else fails, if connect_to_peer(url)
\* failed for want of a listener and is called again once the listener has
\* started, the second call returns Connected and from then on each of the
\* two processes has the other's identity in connected_peers.
C4_RetryConvergence ==
    /\ \A a \in Procs, b \in Procs :
           [](RetriedAfterStart(a, b) => <>[]RetryConverged(a, b))
    /\ [](\A a \in Procs, b \in Procs :
              GotConnected(a, b) => AgentId(b) \in connected_peers[a])

\* C4 witness: the first call failed, the second returned Connected, and
\* both sides are registered.
C4_Witness == RetryConverged(1, 2) /\ listening[2] /\ ~listening[1]

\* The i-th broadcast() of p was made while an established link led to q.
SentTo(p, q, i) == i <= Len(published[p]) /\ q \in published[p][i].to

\* The message of the i-th broadcast() of p is in q's delivery queue.
Arrived(p, q, i) == i <= Len(published[p]) /\ published[p][i].msg \in Range(incoming[q])

\* The Number and Text messages of q's delivery queue.
Delivered(q) == {m \in Range(incoming[q]) : m.kind \in {"Number", "Text"}}

\* C5: round trip of application frames.  A Number or Text passed to
\* broadcast() over an established link, on the connector's or on the
\* acceptor's side, arrives in the other side's delivery queue as the same
\* variant with the same agent_id and the same value or content; and the
\* queue holds no Number or Text that was not passed to broadcast().
C5_RoundTrip ==
    /\ \A p \in Procs, q \in Procs, i \in 1 .. MaxBroadcasts :
           [](SentTo(p, q, i) => <>[]Arrived(p, q, i))
    /\ [](\A q \in Procs : \A m \in Delivered(q) :
              \E p \in Procs \ {q} : \E i \in DOMAIN published[p] : published[p][i].msg = m)

\* C5 witness: the connector and the acceptor each broadcast over the
\* established link, one a Number and the other a Text, and both arrived.
C5_Witness ==
    \E c \in Procs, a \in Procs :
        /\ \E l \in Links : link[l].conn = c /\ link[l].acc = a /\ link[l].cst = "up"
        /\ SentTo(c, a, 1) /\ Arrived(c, a, 1)
        /\ SentTo(a, c, 1) /\ Arrived(a, c, 1)
        /\ published[c][1].msg.kind # published[a][1].msg.kind

\* The Text frames process a has broadcast: greetings and replies.
TextsSent(a) == log[a].greetings + log[a].replies

\* The exchange between a and b is over: each side has sent the other
\* B/2 messages, has the other in its completed set, and each has broadcast
\* B/2 Text frames in all.
ExchangeDone(a, b) ==
    /\ conversation_counts[a][AgentId(b)] = MAX_CONVERSATION_MESSAGES \div 2
    /\ conversation_counts[b][AgentId(a)] = MAX_CONVERSATION_MESSAGES \div 2
    /\ AgentId(b) \in conversation_completed[a]
    /\ AgentId(a) \in conversation_completed[b]
    /\ TextsSent(a) = MAX_CONVERSATION_MESSAGES \div 2
    /\ TextsSent(b) = MAX_CONVERSATION_MESSAGES \div 2

\* C7: bounded exchange.  With two connected agents, budget B = 4 and an LLM
\* backend that always answers, once the initiator has broadcast its
\* greeting the exchange reaches a state where each side's sent count for
\* the other is exactly 2 and each side has the other in its completed set,
\* and from then on no further Text frame is sent: the number of Text frames
\* each side has broadcast stays at 2.
C7_BoundedExchange ==
    [](log[1].greetings > 0 => <>[]ExchangeDone(1, 2))

\* C7 witness: the greeting and three replies have been exchanged, both
\* sides are complete and every queue is empty.
C7_Witness ==
    /\ log[1].greetings = 1
    /\ ExchangeDone(1, 2)
    /\ log[1].complete[AgentId(2)] = 1
    /\ log[2].complete[AgentId(1)] = 1
    /\ incoming[1] = <<>> /\ incoming[2] = <<>>
    /\ \A l \in Links : link[l].a2c = <<>> /\ link[l].c2a = <<>>

\* C6: hard per-peer budget.  In every reachable state and for every peer
\* identity P, the sent count for P (conversation_counts) is at most
\* B/2 = 2, however the handler task and the greeting step of run()
\* interleave.
C6_SentCountWithinBudget ==
    \A a \in Procs : \A id \in Ids :
        conversation_counts[a][id] <= MAX_CONVERSATION_MESSAGES \div 2

\* C10: symmetry breaking in any topology.  For no pair of agents does each
\* of the two send an opening greeting that the other receives.
C10_OneSideInitiates ==
    \A a \in Procs, b \in Procs :
        ~(AgentId(b) \in log[a].greeted_by /\ AgentId(a) \in log[b].greeted_by)

\* C9: initiator determinism.  With agent-1 and agent-2 connected only to
\* each other, agent-2 never broadcasts an opening greeting: no step in
\* which agent 2 broadcasts a greeting starts with an established link
\* between agent 2 and agent 1.
C9_Agent2NeverGreets ==
    [][log'[2].greetings > log[2].greetings => 1 \notin LinkedPeers(2)]_vars

\* The frames in flight on any link.
InFlight == UNION {Range(link[l].c2a) \cup Range(link[l].a2c) \cup Range(link[l].crx) : l \in Links}

\* The frames an agent writes: the handshake frames, greetings, replies and
\* numbers.
AgentFrames ==
    {to_string(m) : m \in UNION {{Presence(id), PresenceAck(id), Text(id, Greeting),
                                  Text(id, Reply)} : id \in Ids}}
    \cup {to_string(Number(id, v)) : id \in Ids, v \in RandomValues}

\* C8: the conversation-complete notification is emitted at most once per
\* peer identity, however many Text frames arrive after both counters have
\* reached B/2: it is emitted by the call that inserts the peer into the
\* completed set and by no other; and no notification goes to the peer as a
\* frame: the frames in flight are handshake frames, greetings, replies and
\* numbers.
C8_CompleteAtMostOnce ==
    /\ \A a \in Procs : \A id \in Ids :
          /\ log[a].complete[id] <= 1
          /\ log[a].complete[id] = 1 <=> id \in conversation_completed[a]
          /\ log[a].qualified[id] > 0 => log[a].complete[id] = 1
    /\ InFlight \subseteq AgentFrames

\* C8 witness: the limit was found reached more than once for a peer, and
\* one notification was emitted.
C8_Witness ==
    \E a \in Procs : \E id \in Ids :
        /\ log[a].qualified[id] = 2
        /\ log[a].complete[id] = 1
        /\ conversation_received_counts[a][id] > MAX_CONVERSATION_MESSAGES \div 2

\* Process p has a running reader task on a link whose peer announced id:
\* the reader task of an outbound link after the handshake, or handle_incoming
\* of an accepted link after the Presence.
LiveTaskFor(p, id) ==
    \E l \in Links :
        \/ link[l].conn = p /\ link[l].cst = "up" /\ link[l].peer_id = id
        \/ link[l].acc = p /\ link[l].ast = "reading" /\ link[l].peer_agent_id = id

\* C11: registry invariant.  In every reachable state a peer identity is in
\* connected_peers if and only if at least one link to that peer still has a
\* live reader/writer task, also when two links to the same identity exist
\* and one of them closes.
C11_RegistryInvariant ==
    \A p \in Procs : \A id \in Ids :
        id \in connected_peers[p] <=> LiveTaskFor(p, id)

\* In the link table lk, process p has an open link with a running reader
\* task whose peer announced id.
SurvivingLink(lk, p, id) ==
    \E l \in Links :
        /\ lk[l].open
        /\ \/ lk[l].conn = p /\ lk[l].cst = "up" /\ lk[l].peer_id = id
           \/ lk[l].acc = p /\ lk[l].ast = "reading" /\ lk[l].peer_agent_id = id

\* In the link table lk, process p has an open outbound link to url whose
\* reader task runs.
SurvivingUrl(lk, p, url) ==
    \E l \in Links :
        lk[l].open /\ lk[l].conn = p /\ lk[l].acc = url /\ lk[l].cst = "up"

\* C20: disconnect cleanup removes at most the entries the closing link
\* itself added.  No step removes a peer identity from connected_peers while
\* another open link to that identity survives the step, and no step removes
\* a url from connected_urls while another open outbound link to that url
\* survives it.
C20_CleanupKeepsSurvivor ==
    [][\A p \in Procs :
          /\ \A id \in connected_peers[p] \ connected_peers'[p] : ~SurvivingLink(link', p, id)
          /\ \A url \in connected_urls[p] \ connected_urls'[p] : ~SurvivingUrl(link', p, url)]_vars

\* How many times x occurs in the sequence seq.
Copies(seq, x) == Cardinality({i \in DOMAIN seq : seq[i] = x})

RECURSIVE Sum(_, _)
Sum(f, S) == IF S = {} THEN 0 ELSE LET x == CHOOSE y \in S : TRUE IN f[x] + Sum(f, S \ {x})

\* The copies of message m that p has transmitted to q: those written to a
\* socket between the two and those in q's delivery queue.
Transmitted(p, q, m) ==
    Copies(incoming[q], m)
    + Sum([l \in Links |->
              IF link[l].conn = p /\ link[l].acc = q
              THEN Copies(link[l].c2a, to_string(m))
              ELSE IF link[l].conn = q /\ link[l].acc = p
              THEN Copies(link[l].a2c, to_string(m))
              ELSE 0], Links)

\* The broadcast() calls of p that passed message m.
Broadcasts(p, m) == {i \in DOMAIN published[p] : published[p][i].msg = m}

\* C12: fan-out exactly once.  When nothing fails, a message that p passed to
\* broadcast() while an established link led to q has been transmitted to q
\* exactly once per call: not zero times and not twice, also when p and q are
\* linked in both directions.
C12_FanOutExactlyOnce ==
    \A p \in Procs, q \in Procs : \A m \in AppMessages(p) :
        (Broadcasts(p, m) # {} /\ \A i \in Broadcasts(p, m) : q \in published[p][i].to)
        => Transmitted(p, q, m) = Cardinality(Broadcasts(p, m))

\* The i-th broadcast() of process 1 passed a Text while an established link
\* led to process 2; the frame has not yet been accepted by process 2, which
\* has an established link to process 3.
SentDownChain(i) ==
    /\ SentTo(1, 2, i)
    /\ published[1][i].msg.kind = "Text"
    /\ ~Arrived(1, 2, i)
    /\ 3 \in LinkedPeers(2)

\* C13 as stated: relay of accepted frames.  In the chain 1-2-3, a Text
\* frame that 1 broadcasts to 2 eventually reaches 3's delivery queue through
\* 2.
C13_RelayReachesEnd ==
    \A i \in 1 .. MaxBroadcasts :
        [](SentDownChain(i) => <>Arrived(1, 3, i))

\* Every frame on a link was published by the process at the sending end.
OwnFramesOnly ==
    \A l \in Links :
        /\ \A w \in Range(link[l].c2a) \cup Range(link[l].crx) : w.agent_id = AgentId(link[l].conn)
        /\ \A w \in Range(link[l].a2c) : w.agent_id = AgentId(link[l].acc)

\* C13 amended: every Text or Number frame accepted from a peer is placed on
\* the delivery queue of the process that accepted it and on no broadcast
\* queue, and no writer task retransmits it: a link carries only frames its
\* sending end published, and in the chain 1-2-3 a Text or Number that 1
\* broadcasts reaches 2's delivery queue and never 3's (nor one of 3 process
\* 1's).
C13_AcceptedFramesStay ==
    /\ \A i \in 1 .. MaxBroadcasts : [](SentTo(1, 2, i) => <>[]Arrived(1, 2, i))
    /\ [](OwnFramesOnly)
    /\ [](\A i \in 1 .. MaxBroadcasts : ~Arrived(1, 3, i) /\ ~Arrived(3, 1, i))

\* C13 witness: the chain is linked, process 1's Text has reached process
\* 2's delivery queue, every frame has been read, and process 3's queue does
\* not hold it.
C13_Witness ==
    /\ SentTo(1, 2, 1)
    /\ published[1][1].msg.kind = "Text"
    /\ 3 \in LinkedPeers(2)
    /\ Arrived(1, 2, 1)
    /\ ~Arrived(1, 3, 1)
    /\ 2 \in LinkedPeers(3)
    /\ \A l \in Links : link[l].a2c = <<>> /\ link[l].c2a = <<>> /\ link[l].crx = <<>>

\* C14 as stated: delivery-queue filter.  Only Text and Number frames are
\* ever enqueued on the delivery queue; no Presence, PresenceAck, Ping or
\* Pong reaches it.
C14_OnlyTextAndNumber ==
    \A p \in Procs : \A m \in Range(incoming[p]) : m.kind \in {"Text", "Number"}

\* In this step the task of process p that reads link l took the frame at
\* the head of the socket and enqueued it on p's delivery queue.
EnqueuedFrom(p, l, accepted) ==
    LET frames == IF accepted THEN link[l].c2a ELSE link[l].a2c
        after == IF accepted THEN link'[l].c2a ELSE link'[l].a2c
    IN  /\ IF accepted THEN link[l].acc = p /\ link[l].ast = "reading"
                       ELSE link[l].conn = p /\ link[l].cst \in {"ackwait", "up"}
        /\ frames # <<>>
        /\ after = Tail(frames)
        /\ incoming'[p] = Append(incoming[p], from_str(Head(frames)))

\* C14 amended: the delivery queue takes every frame that parses except the
\* ones a reading task consumes itself.  A frame is enqueued only by the task
\* that read it from a socket; handle_incoming of an accepted link never
\* enqueues a Presence or a Ping, the ack wait of an outbound link never
\* enqueues a PresenceAck, and the other frames (the acceptor's Presence on
\* an outbound link, a PresenceAck or Pong on an accepted link or after the
\* handshake, Text and Number) are enqueued.  So every Presence in a queue
\* announces a process its owner called.
C14_QueueTakesUnconsumedFrames ==
    /\ [][\A p \in Procs :
             incoming'[p] # incoming[p] =>
                 \E l \in Links :
                     \/ /\ EnqueuedFrom(p, l, TRUE)
                        /\ from_str(Head(link[l].c2a)).kind \notin {"Presence", "Ping", "Err"}
                     \/ /\ EnqueuedFrom(p, l, FALSE)
                        /\ from_str(Head(link[l].a2c)).kind # "Err"
                        /\ link[l].cst = "ackwait" =>
                               from_str(Head(link[l].a2c)).kind # "PresenceAck"]_vars
    /\ [](\A p \in Procs : \A m \in Range(incoming[p]) :
              m.kind = "Presence" =>
                  \E url \in Range(results[p].calls) : m.agent_id = AgentId(url))

\* C14 witness: process 2 accepted process 1's Presence and its queue does
\* not hold it; the queue of process 1 holds the Presence that process 2
\* wrote on the outbound link, the queue of process 3 holds a PresenceAck
\* that arrived on its accepted link, and the queue of process 2 holds a Text.
C14_Witness ==
    /\ AgentId(1) \in connected_peers[2]
    /\ Presence(AgentId(1)) \notin Range(incoming[2])
    /\ Presence(AgentId(2)) \in Range(incoming[1])
    /\ PresenceAck(AgentId(2)) \in Range(incoming[3])
    /\ \E m \in Range(incoming[2]) : m.kind = "Text"

\* The take_incoming_receiver calls on p's server that returned the receiver.
Somes(p) == {i \in DOMAIN log[p].takes : log[p].takes[i][2] = "Some"}

\* C15: take-once delivery queue.  Over any interleaving of
\* take_incoming_receiver calls on one server and its clones, the first call
\* returns the receiver and every other call returns None, so exactly one
\* call returned it; the receiver is in incoming_rx until the first call; and
\* a handler task consumes the queue only if run()'s own call returned the
\* receiver.
C15_TakeOnce ==
    \A p \in Procs :
        /\ incoming_rx[p] <=> log[p].takes = <<>>
        /\ Somes(p) = IF log[p].takes = <<>> THEN {} ELSE {1}
        /\ handler[p].pc # "none" => Took("run", TRUE) \in Range(log[p].takes)

\* C15 witness: three calls on one server; another task's call came first and
\* got the receiver, run()'s call and a third call got None, and no handler
\* task was spawned.
C15_Witness ==
    \E p \in Procs :
        /\ Len(log[p].takes) = 3
        /\ log[p].takes[1] = Took("test", TRUE)
        /\ Took("run", FALSE) \in Range(log[p].takes)
        /\ handler[p].pc = "none"
        /\ run[p].pc # "connect"

\* A retry tick of agent a: run() evaluates the guard of the connection
\* retries.
RetryTick(a) == run[a].pc = "retry_connect" /\ run'[a].pc # "retry_connect"

\* C16: retry supervisor.  At every retry tick at which a configured peer url
\* is not in connected_urls, run() enters the pass over peer_addresses that
\* calls connect_to_peer for every such url, however many peers are
\* registered through inbound links.
C16_RetryEveryTick ==
    [][\A a \in Procs :
          (RetryTick(a) /\ \E url \in Range(peer_addresses[a]) : ~is_connected_to_url(a, url))
          => run'[a].pc = "retry_each"]_vars

\* C17: no duplicate outbound link.  At no time does one process hold two
\* live outbound links to the same url, also when two connect_to_peer calls
\* for the url are interleaved.
C17_OneOutboundLinkPerUrl ==
    \A c \in Procs, url \in Procs : Cardinality(LiveOutbound(c, url)) <= 1

\* In this step handle_incoming of the accepted link l reads a Presence.
AcceptsPresence(l) ==
    /\ link[l].ast = "reading"
    /\ link[l].c2a # <<>>
    /\ from_str(Head(link[l].c2a)).kind = "Presence"
    /\ link'[l].c2a = Tail(link[l].c2a)

\* C19: inbound accept.  When the acceptor reads Presence{agent_id} on an
\* accepted link it registers that identity, and the PresenceAck it produces
\* is written to that link and to no other link of the acceptor: the frames
\* written to every other socket are the same after the step as before it.
C19_AckOnSameLinkOnly ==
    [][\A l \in Links :
          AcceptsPresence(l) =>
              /\ from_str(Head(link[l].c2a)).agent_id \in connected_peers'[link[l].acc]
              /\ link'[l].a2c = Append(link[l].a2c, to_string(PresenceAck(AgentId(link[l].acc))))
              /\ \A k \in Links \ {l} :
                    link'[k].c2a = link[k].c2a /\ link'[k].a2c = link[k].a2c]_vars

\* In this step process p publishes a burst on its broadcast channel.
Publishes(p) == Len(published'[p]) = Len(published[p]) + 1

\* The frames of the burst p publishes in this step.
Burst(p) ==
    LET b == published'[p][Len(published'[p])]
    IN  [i \in 1 .. b.count |-> to_string(b.msg)]

\* C18: overflow policy.  A writer task that fell behind by more than the
\* capacity of the broadcast queue keeps running and transmits the frames
\* published afterwards: whenever a process publishes frames, they are
\* written to the socket of each of its outbound links whose handshake is
\* complete and whose socket is open.
C18_WriterKeepsRunning ==
    [][\A p \in Procs :
          Publishes(p) =>
              \A l \in Links :
                  (link[l].conn = p /\ link[l].cst = "up" /\ link[l].open)
                  => link'[l].c2a = link[l].c2a \o Burst(p)]_vars

\* In this step run() of agent a makes its decision to initiate on a
\* non-empty set of peers all of whose identities are greater than its own,
\* and does not go on to generate a greeting: the LLM backend is disabled, or
\* enabled and not available.
InitiatesWithoutLlm(a) ==
    /\ run[a].pc = "peers"
    /\ run'[a].pc # "peers"
    /\ run[a].phase = "first" => run[a].has_peers
    /\ get_peer_ids(a) # {}
    /\ should_initiate(a, get_peer_ids(a))
    /\ run'[a].pc # "generate"

\* In this step agent a broadcasts one Number frame with a value in
\* [1, 1000000].
SendsNumber(a) ==
    /\ log'[a].numbers = log[a].numbers + 1
    /\ \E value \in 1 .. 1000000 : link' = broadcast(link, a, Number(AgentId(a), value))

\* C21: Number fallback.  Whenever an agent is the one that should initiate
\* (it has peers and its identity is less than every peer's) and the LLM
\* backend is disabled or is enabled but unavailable, it broadcasts a single
\* Number frame with a value in [1, 1000000] instead of a greeting: at the
\* first check, in the poll loop and in the retry loop.
C21_NumberFallback ==
    [][\A a \in Procs : InitiatesWithoutLlm(a) => SendsNumber(a)]_vars

\* In this step agent a passes a Number frame to broadcast().
NumberSent(a) == log'[a].numbers > log[a].numbers

\* In this step the handler task of agent a takes a Number frame from the
\* delivery queue.
NumberReceived(a) ==
    /\ handler[a].pc = "recv"
    /\ incoming[a] # <<>>
    /\ Head(incoming[a]).kind = "Number"
    /\ incoming'[a] = Tail(incoming[a])

\* C22: the Number path does not consume the text budget.  A step in which
\* an agent sends a Number frame and a step in which its handler receives one
\* leave its sent count, its received count and its completed set as they
\* were, for every peer.
C22_NumberLeavesBudget ==
    [][\A a \in Procs :
          (NumberSent(a) \/ NumberReceived(a)) =>
              /\ conversation_counts'[a] = conversation_counts[a]
              /\ conversation_received_counts'[a] = conversation_received_counts[a]
              /\ conversation_completed'[a] = conversation_completed[a]]_vars

\* C22 witness: agent 1 has sent its Number, the handler of agent 2 has taken
\* it from the delivery queue, and no counter has moved on either side.
C22_Witness ==
    /\ log[1].numbers = 1
    /\ handler[2].pc = "recv"
    /\ incoming[2] = <<>>
    /\ \A l \in Links : link[l].c2a = <<>> /\ link[l].crx = <<>>
    /\ \A a \in {1, 2} : \A id \in Ids :
          /\ conversation_counts[a][id] = 0
          /\ conversation_received_counts[a][id] = 0
    /\ conversation_completed = [p \in Procs |-> {}]

\* The Text frames of the sequence seq: messages if parsed, frames if not.
TextsFrom(seq, parsed, id) ==
    Cardinality({i \in DOMAIN seq :
                    LET m == IF parsed THEN seq[i] ELSE from_str(seq[i])
                    IN  m.kind = "Text" /\ m.agent_id = id})

\* The Text frames process a has transmitted onto its links to process p:
\* those p's handler has counted, those in p's delivery queue and those
\* written to a socket between the two.
TextsTransmitted(a, p) ==
    conversation_received_counts[p][AgentId(a)]
    + TextsFrom(incoming[p], TRUE, AgentId(a))
    + Sum([l \in Links |->
              IF link[l].conn = a /\ link[l].acc = p
              THEN TextsFrom(link[l].c2a, FALSE, AgentId(a))
              ELSE IF link[l].conn = p /\ link[l].acc = a
              THEN TextsFrom(link[l].a2c, FALSE, AgentId(a))
              ELSE 0], Links)

\* C23: the coordinator bounds the text messages actually exchanged.  For
\* every peer P, the number of Text frames a process transmits onto its link
\* to P is at most B/2 = 2, also when the process has other peers whose
\* replies go out on the same broadcast channel.
C23_TextsWithinBudget ==
    \A a \in Procs : \A p \in Procs \ {a} :
        TextsTransmitted(a, p) <= MAX_CONVERSATION_MESSAGES \div 2

\* In this step the task that reads link l (handle_incoming of the accepted
\* socket, or the reader task of the outbound link) takes from the socket a
\* frame that does not parse.
TakesMalformed(l, accepted) ==
    LET frames == IF accepted THEN link[l].c2a ELSE link[l].a2c
        after == IF accepted THEN link'[l].c2a ELSE link'[l].a2c
    IN  /\ IF accepted THEN link[l].ast = "reading" ELSE link[l].cst = "up"
        /\ frames # <<>>
        /\ from_str(Head(frames)) = ParseError
        /\ after = Tail(frames)

\* C24: a malformed or unrecognised frame is dropped and nothing else
\* happens.  The step that takes it changes neither connected_peers nor
\* connected_urls, enqueues nothing on the delivery queue, publishes nothing
\* (no socket gets a frame), and leaves the reading task in its loop, so that
\* the frames that follow on the link are processed.
C24_MalformedFrameDropped ==
    [][\A l \in Links, accepted \in BOOLEAN :
          TakesMalformed(l, accepted) =>
              /\ connected_peers' = connected_peers
              /\ connected_urls' = connected_urls
              /\ incoming' = incoming
              /\ link' = IF accepted THEN [link EXCEPT ![l].c2a = Tail(@)]
                                     ELSE [link EXCEPT ![l].a2c = Tail(@)]]_vars

\* C24 witness: each server wrote a raw frame on the link and then broadcast
\* a Text or produced a Pong; both raw frames have been taken, the link is
\* still up with both sides registered, and the frames that followed them
\* have reached the delivery queues.
C24_Witness ==
    \E l \in Links :
        /\ link[l].conn = 1 /\ link[l].acc = 2
        /\ link[l].cst = "up" /\ link[l].ast = "reading" /\ link[l].open
        /\ link[l].c2a = <<>> /\ link[l].a2c = <<>>
        /\ Len(published[1]) = 3
        /\ published[1][1].msg = ParseError
        /\ published[1][2].msg.kind = "Text"
        /\ published[1][3].msg.kind = "Ping"
        /\ Cardinality(Raws(2)) = 1
        /\ published[1][2].msg \in Range(incoming[2])
        /\ \E seq \in PingSeqs : incoming[1][Len(incoming[1])] = Pong(AgentId(2), seq)
        /\ connected_peers[1] = {AgentId(2)} /\ connected_peers[2] = {AgentId(1)}
        /\ connected_urls[1] = {2}

\* In this step handle_incoming of the accepted socket of link l takes a
\* Ping carrying seq from the socket.
TakesPing(l, seq) ==
    /\ link[l].ast = "reading"
    /\ link[l].c2a # <<>>
    /\ from_str(Head(link[l].c2a)).kind = "Ping"
    /\ from_str(Head(link[l].c2a)).seq = seq
    /\ link'[l].c2a = Tail(link[l].c2a)

\* C28: Ping echo.  The step in which the accepting side takes Ping{seq}
\* from an accepted link writes exactly one more frame towards the peer that
\* sent the Ping, and that frame reads as a Pong carrying the accepting
\* side's own agent_id and the same seq.
C28_PingEcho ==
    [][\A l \in Links, seq \in PingSeqs :
          TakesPing(l, seq) =>
              /\ Len(link'[l].a2c) = Len(link[l].a2c) + 1
              /\ SubSeq(link'[l].a2c, 1, Len(link[l].a2c)) = link[l].a2c
              /\ from_str(link'[l].a2c[Len(link'[l].a2c)]) =
                     [kind |-> "Pong", agent_id |-> AgentId(link[l].acc), seq |-> seq]]_vars

\* C28 witness: agent-1 sent Ping 7 and then Ping 0 on its link to agent-2,
\* and agent-2's two Pongs, with agent-2's id and the seqs 7 and 0 in that
\* order, are the last messages the reader task of agent-1 delivered.
C28_Witness ==
    /\ Len(published[1]) = 2
    /\ published[1][1].msg = [kind |-> "Ping", agent_id |-> AgentId(1), seq |-> 7]
    /\ published[1][2].msg = [kind |-> "Ping", agent_id |-> AgentId(1), seq |-> 0]
    /\ Len(incoming[1]) >= 2
    /\ incoming[1][Len(incoming[1]) - 1] = [kind |-> "Pong", agent_id |-> AgentId(2), seq |-> 7]
    /\ incoming[1][Len(incoming[1])] = [kind |-> "Pong", agent_id |-> AgentId(2), seq |-> 0]

\* In this step the ack wait of the call on link l is done with a Text or
\* Number frame it received: it reads the frame and its send completes at
\* once, or the send it was suspended in ends.
AckWaitDoneWith(l) ==
    /\ link[l].a2c # <<>>
    /\ from_str(Head(link[l].a2c)).kind \in {"Text", "Number"}
    /\ \/ /\ link[l].cst = "ackwait"
          /\ link'[l].cst = "ackwait"
          /\ link'[l].a2c = Tail(link[l].a2c)
       \/ /\ link[l].cst = "acksend"
          /\ link'[l].cst # "acksend"

\* C25: frames received during the ack wait are not lost.  Every well-formed
\* Text or Number frame the connector receives between sending its Presence
\* and receiving the PresenceAck is appended to its delivery queue, behind
\* what the queue holds (receipt order), whether the call then returns
\* Connected or Failed.
C25_AckWaitFramesQueued ==
    [][\A l \in Links :
          AckWaitDoneWith(l) =>
              incoming'[link[l].conn] =
                  Append(incoming[link[l].conn], from_str(Head(link[l].a2c)))]_vars

\* The messages the driver broadcast from p, in publish order.
Sent(p) == [i \in 1 .. Len(published[p]) |-> published[p][i].msg]

\* The application messages of a sequence of messages, in order.
App(ms) == SelectSeq(ms, LAMBDA m : m.kind \in {"Text", "Number"})

\* The messages a sequence of frames reads as.
Parsed(ws) == [i \in 1 .. Len(ws) |-> from_str(ws[i])]

\* s is the end of t.
IsSuffix(s, t) == Len(s) <= Len(t) /\ s = SubSeq(t, Len(t) - Len(s) + 1, Len(t))

\* C26: per-link order is preserved.  On the link between connector c and
\* acceptor q, the application frames of q that c's reader has enqueued,
\* followed by those q's writer has transmitted and c has not read yet, are
\* in the order q published them, and the same from c to q (the frames c's
\* writer has still to transmit last): what is enqueued and what is on the
\* wire is, in order, the end of what was published.
C26_PerLinkOrder ==
    \A l \in Links :
        LET c == link[l].conn
            q == link[l].acc
        IN  link[l].cst \in {"ackwait", "acksend", "up"} =>
                /\ IsSuffix(App(incoming[c]) \o App(Parsed(link[l].a2c)), Sent(q))
                /\ IsSuffix(App(incoming[q]) \o App(Parsed(link[l].c2a))
                                \o App(Parsed(link[l].crx)), Sent(c))

\* C26 witness: each side published a Number and then a Text after the link
\* was made, and each delivery queue holds the other side's two messages in
\* that order.
C26_Witness ==
    /\ \E l \in Links : link[l].cst = "up" /\ link[l].conn = 1 /\ link[l].acc = 2
    /\ Sent(1) = <<Number(AgentId(1), 42), Text(AgentId(1), "hello")>>
    /\ Sent(2) = <<Number(AgentId(2), 42), Text(AgentId(2), "hello")>>
    /\ App(incoming[1]) = Sent(2)
    /\ App(incoming[2]) = Sent(1)

\* The peer counts of the chain agent-1 -> agent-2 -> agent-3.
ChainCounts == <<peer_count(1), peer_count(2), peer_count(3)>>

\* C29: chain fan-out.  In the chain where agent-1 connects to agent-2 and
\* agent-2 connects to agent-3, no peer count ever exceeds 1, 2 and 1, and
\* once both calls have returned Connected the system settles with
\* peer_count 1 for agent-1, 2 for agent-2 and 1 for agent-3.
C29_ChainFanOut ==
    /\ [](peer_count(1) <= 1 /\ peer_count(2) <= 2 /\ peer_count(3) <= 1)
    /\ (GotConnected(1, 2) /\ GotConnected(2, 3)) ~> [](ChainCounts = <<1, 2, 1>>)

\* C29 witness: both calls of the chain have returned Connected and the
\* registries hold agent-2 at agent-1, agent-1 and agent-3 at agent-2, and
\* agent-2 at agent-3.
C29_Witness ==
    /\ GotConnected(1, 2)
    /\ GotConnected(2, 3)
    /\ get_peer_ids(1) = {AgentId(2)}
    /\ get_peer_ids(2) = {AgentId(1), AgentId(3)}
    /\ get_peer_ids(3) = {AgentId(2)}
    /\ ChainCounts = <<1, 2, 1>>

\* C27: the reader and the writer task of a link terminate together.  Once
\* the reader task of an outbound link has ended, the writer task of the link
\* is not running any more, and once handle_incoming of an accepted socket
\* has ended, handle_outgoing of that socket is not running any more, whether
\* or not anything is published afterwards.
C27_TasksEndTogether ==
    \A l \in Links :
        /\ link[l].cst = "ended" => link[l].writer # "running"
        /\ link[l].ast = "ended" => link[l].outgoing # "running"

\* The Text at the head of a's delivery queue comes from peer P.
TextFrom(a, P) ==
    /\ incoming[a] # <<>>
    /\ Head(incoming[a]).kind = "Text"
    /\ Head(incoming[a]).agent_id = P

\* What the claim says of a failure of the backend while a handles a Text of
\* P: the counts of sent messages and the completed set stay as they are,
\* nothing is broadcast, and the handler is back at the head of its loop.
Absorbed(a) ==
    /\ conversation_counts' = conversation_counts
    /\ conversation_completed' = conversation_completed
    /\ link' = link
    /\ handler'[a].pc = "recv"

\* C31 as stated: when a Text from P arrives and the backend is unavailable,
\* or generate() returns an error, received_count[P] is incremented (on
\* arrival), sent_count[P] and the completed set are unchanged, nothing is
\* broadcast and the handler goes on with the next message.
C31_FailureAbsorbed ==
    [][\A a \in Procs :
          /\ \A P \in Ids :
                 handler_recv(a, FALSE) /\ TextFrom(a, P) =>
                     /\ conversation_received_counts'[a][P] =
                            conversation_received_counts[a][P] + 1
                     /\ Absorbed(a)
          /\ handler_generate(a, FALSE) => Absorbed(a)]_vars

\* C31 amended: the same, for a Text that arrives while sent_count[P] is
\* below B/2, which is when the handler turns to the backend; a Text that
\* arrives with sent_count[P] at B/2 is counted and may add P to the
\* completed set whatever the state of the backend.
C31_FailureAbsorbedBelowBudget ==
    [][\A a \in Procs :
          /\ \A P \in Ids :
                 /\ handler_recv(a, FALSE) /\ TextFrom(a, P) =>
                        conversation_received_counts'[a][P] =
                            conversation_received_counts[a][P] + 1
                 /\ handler_recv(a, FALSE) /\ TextFrom(a, P)
                        /\ ~limit_reached(conversation_counts[a][P]) => Absorbed(a)
          /\ handler_generate(a, FALSE) => Absorbed(a)]_vars

\* C31 witness: agent-1 greeted, agent-2 (LLM enabled) has counted the
\* greeting and sent nothing, and its handler is back at the head of its loop
\* with an empty queue: the backend failed it.
C31_Witness ==
    /\ log[1].greetings = 1
    /\ ollama_enabled[2]
    /\ conversation_received_counts[2][AgentId(1)] = 1
    /\ conversation_counts[2][AgentId(1)] = 0
    /\ conversation_completed[2] = {}
    /\ log[2].replies = 0
    /\ handler[2].pc = "recv"
    /\ incoming[2] = <<>>

\* The conversation state of every process: sent counts, received counts,
\* completed sets.
ConversationState ==
    <<conversation_counts, conversation_received_counts, conversation_completed>>

\* A step that registers or removes a peer or a url, or in which a
\* connect_to_peer call starts or returns.
ConnectionStep ==
    \/ connected_peers' # connected_peers
    \/ connected_urls' # connected_urls
    \/ results' # results

\* C32: conversation state only moves forward.  In every step, for every
\* process and peer P, sent_count[P] and received_count[P] do not decrease
\* and P stays in the completed set if it is there; and a step that
\* disconnects or connects a peer leaves all three as they are.
C32_StateMovesForward ==
    [][/\ \A a \in Procs, P \in Ids :
              /\ conversation_counts'[a][P] >= conversation_counts[a][P]
              /\ conversation_received_counts'[a][P] >= conversation_received_counts[a][P]
              /\ P \in conversation_completed[a] => P \in conversation_completed'[a]
       /\ ConnectionStep => ConversationState' = ConversationState]_vars

\* C32 witness: agent-1 has connected to agent-2 twice, each time by a full
\* handshake (the first link ended in between), and after the second
\* handshake its conversation with agent-2 is still complete, with both
\* counts at the budget.
C32_Witness ==
    /\ results[1].calls = <<2, 2>>
    /\ results[1].returns = <<<<2, "Connected">>, <<2, "Connected">>>>
    /\ LiveOutbound(1, 2) # {}
    /\ AgentId(2) \in connected_peers[1]
    /\ conversation_counts[1][AgentId(2)] = MAX_CONVERSATION_MESSAGES \div 2
    /\ conversation_received_counts[1][AgentId(2)] = MAX_CONVERSATION_MESSAGES \div 2
    /\ conversation_completed[1] = {AgentId(2)}

\* The retry loop of a has come to an address it is not connected to and has
\* not used up its tries on, and a link slot is free for the attempt.
RetryDue(a) ==
    LET r == run[a]
    IN  /\ r.pc = "retry_each"
        /\ r.i <= Len(peer_addresses[a])
        /\ ~is_connected_to_url(a, peer_addresses[a][r.i])
        /\ Called(a, peer_addresses[a][r.i]) < MaxCalls
        /\ \E l \in Links : link[l].cst = "free"

\* C33: retry attempts are independent and do not block each other.
\* Whenever the retry loop has an unconnected address to try, the attempt
\* can start, also while the attempt to an earlier address of the same tick
\* is still waiting for its connection or its handshake.
C33_RetriesIndependent ==
    \A a \in Procs : RetryDue(a) => ENABLED run_retry_call(a)

\* In this step run() of a broadcasts a greeting.
Greets(a) == log'[a].greetings = log[a].greetings + 1

\* In this step run() of a has its greeting generated and counts it.
CountsGreeting(a) == run[a].pc = "generate" /\ run'[a].pc = "send"

\* C34: a process broadcasts an opening greeting at most once in its
\* lifetime, whether at the first check, in the poll loop or in the retry
\* loop.  A greeting is broadcast only after it has been counted, and
\* counting it adds exactly 1 to sent_count of every peer of the snapshot
\* taken for it and changes no other count.
C34_GreetsAtMostOnce ==
    /\ [](\A a \in Procs : log[a].greetings <= 1)
    /\ [][\A a \in Procs :
             /\ Greets(a) => run[a].pc = "send" /\ run'[a].pc # "send"
             /\ CountsGreeting(a) =>
                    conversation_counts' =
                        [conversation_counts EXCEPT ![a] =
                            [id \in Ids |-> IF id \in run[a].peers
                                            THEN conversation_counts[a][id] + 1
                                            ELSE conversation_counts[a][id]]]
             /\ conversation_counts'[a] # conversation_counts[a] =>
                    CountsGreeting(a)
                    \/ (handler[a].pc = "generate" /\ handler'[a].pc = "send")]_vars

\* C34 witness: agent-1 sent its greeting, counted once for agent-2, and is
\* back at the top of a later tick of its retry loop with agent-2 still its
\* peer.
C34_Witness ==
    /\ log[1].greetings = 1
    /\ log[1].replies = 0
    /\ conversation_counts[1][AgentId(2)] = 1
    /\ run[1].phase = "retry"
    /\ run[1].pc = "has_peers"
    /\ run[1].initiated_conversation
    /\ has_peers(1)


\* C35: completion implies an exhausted budget on both sides.  In every
\* reachable state, a peer P in the completed set of a process has
\* sent_count[P] >= B/2 and received_count[P] >= B/2 at that process.
C35_CompletedImpliesBudget ==
    \A a \in Procs : \A P \in conversation_completed[a] :
        /\ conversation_counts[a][P] >= MAX_CONVERSATION_MESSAGES \div 2
        /\ conversation_received_counts[a][P] >= MAX_CONVERSATION_MESSAGES \div 2

\* C35 witness: agent-2 has completed its conversation with agent-1 after a
\* closed socket, while agent-1 has not.
C35_Witness ==
    /\ conversation_completed[2] = {AgentId(1)}
    /\ conversation_completed[1] = {}
    /\ conversation_counts[2][AgentId(1)] = MAX_CONVERSATION_MESSAGES \div 2
    /\ conversation_received_counts[2][AgentId(1)] = MAX_CONVERSATION_MESSAGES \div 2
    /\ \E l \in Links : link[l].cst # "free" /\ ~link[l].open


\* In this step process a broadcasts a Text: its greeting or a reply.
SendsText(a) ==
    log'[a].greetings + log'[a].replies # log[a].greetings + log[a].replies

\* In this step the handler of a decides to reply to the frame it received.
DecidesReply(a) == handler[a].pc = "recv" /\ handler'[a].pc = "generate"

\* In this step the handler of a has its reply generated and counts it.
CountsReply(a) == handler[a].pc = "generate" /\ handler'[a].pc = "send"

\* C36: Text traffic terminates.  The handler decides to reply only to a
\* Text whose sender identity P has sent_count[P] below B/2, each reply
\* raises sent_count of that identity by 1, and every execution has only
\* finitely many Text broadcasts: from some point on no agent sends a Text.
C36_TextTrafficTerminates ==
    /\ [][\A a \in Procs :
             /\ DecidesReply(a) =>
                    \E P \in Ids :
                        /\ TextFrom(a, P)
                        /\ handler'[a].peer_id = P
                        /\ conversation_counts[a][P] < MAX_CONVERSATION_MESSAGES \div 2
             /\ CountsReply(a) =>
                    conversation_counts' =
                        [conversation_counts EXCEPT ![a][handler[a].peer_id] = @ + 1]]_vars
    /\ <>[][\A a \in Procs : ~SendsText(a)]_vars

\* C36 witness: in the chain of three agents, agent-1 and agent-2 have used
\* their budget for each other, at least three replies were broadcast, and
\* every handler is idle with no frame left on a link or in a queue.
C36_Witness ==
    /\ conversation_counts[1][AgentId(2)] >= MAX_CONVERSATION_MESSAGES \div 2
    /\ conversation_counts[2][AgentId(1)] >= MAX_CONVERSATION_MESSAGES \div 2
    /\ log[1].replies + log[2].replies >= 3
    /\ \A a \in {1, 2, 3} : handler[a].pc = "recv" /\ incoming[a] = <<>>
    /\ \A l \in Links : link[l].c2a = <<>> /\ link[l].a2c = <<>>


\* C37: a full delivery queue never makes an outbound handshake fail and
\* never stops a link's reader.  A call whose ack wait is suspended in
\* forwarding a frame to the delivery queue does not end as Failed, and a
\* reader of an accepted or established link that has a frame to read can
\* always handle it, so that later Presence and Ping frames are reached.
C37_FullQueueNeverBlocks ==
    /\ [][\A l \in Links : link[l].cst = "acksend" => link'[l].cst # "ended"]_vars
    /\ [](\A l \in Links :
             /\ link[l].ast = "reading" /\ link[l].c2a # <<>> =>
                    ENABLED handle_incoming_read(l)
             /\ link[l].cst = "up" /\ link[l].a2c # <<>> =>
                    ENABLED reader_task_read(l))


\* In this step the call on link l ends its handshake and the link is
\* established.
Establishes(l) == link[l].cst # "up" /\ link'[l].cst = "up"

\* In this step the registry of process c gains the identity id.
Gains(c, id) == id \notin connected_peers[c] /\ id \in connected_peers'[c]

\* C38: the identity a connector registers for an outbound link is the
\* identity of the process at the other end.  A link is established only by
\* reading, on that link, a PresenceAck that carries the acceptor's own
\* identity, which is then registered and remembered for the link; every
\* established link remembers the identity of its acceptor; and a registry
\* gains an identity only by such a step or by a Presence read on an
\* accepted link.
C38_RegistersOtherEnd ==
    /\ [](\A l \in Links : link[l].cst = "up" => link[l].peer_id = AgentId(link[l].acc))
    /\ [][/\ \A l \in Links :
                Establishes(l) =>
                    /\ link[l].cst = "ackwait"
                    /\ link[l].a2c # <<>>
                    /\ from_str(Head(link[l].a2c)).kind = "PresenceAck"
                    /\ from_str(Head(link[l].a2c)).agent_id = AgentId(link[l].acc)
                    /\ AgentId(link[l].acc) \in connected_peers'[link[l].conn]
          /\ \A c \in Procs : \A id \in Ids :
                Gains(c, id) =>
                    \/ \E l \in Links :
                          Establishes(l) /\ link[l].conn = c /\ id = AgentId(link[l].acc)
                    \/ \E l \in Links :
                          AcceptsPresence(l) /\ link[l].acc = c]_vars

\* C38 witness: agent-1 and agent-3 both connected to agent-2, each
\* registered agent-2 and nothing else, and agent-2 registered both.
C38_Witness ==
    /\ \E l \in Links : link[l].cst = "up" /\ link[l].conn = 1 /\ link[l].acc = 2
    /\ \E l \in Links : link[l].cst = "up" /\ link[l].conn = 3 /\ link[l].acc = 2
    /\ connected_peers[1] = {AgentId(2)}
    /\ connected_peers[3] = {AgentId(2)}
    /\ connected_peers[2] = {AgentId(1), AgentId(3)}


\* In this step the reader task of the established outbound link l ends.
ReaderEnds(l) == link[l].cst = "up" /\ link'[l].cst # "up"

\* In this step c calls connect_to_peer(url).
Calls(c, url) == results'[c].calls = Append(results[c].calls, url)

\* C39 as stated, with a live link read as one whose socket is open: when
\* the reader task of an established outbound link ends the peer identity
\* and the url are removed, a call that finds the url absent starts a new
\* handshake, and a url is in connected_urls only while an outbound link to
\* it whose handshake completed is open.
C39_UrlOnlyWhileLive ==
    /\ [](\A c \in Procs : \A url \in connected_urls[c] : LiveOutbound(c, url) # {})
    /\ [][/\ \A l \in Links :
                ReaderEnds(l) =>
                    /\ link[l].peer_id \notin connected_peers'[link[l].conn]
                    /\ link[l].acc \notin connected_urls'[link[l].conn]
          /\ \A c \in Procs : \A url \in Procs :
                Calls(c, url) /\ url \notin connected_urls[c] =>
                    results'[c].returns = results[c].returns]_vars

\* C39: reconnect after disconnect.  When the reader task of an established
\* outbound link ends, the peer identity and the url are removed, so that
\* is_connected_to_url(url) is false; a call of connect_to_peer(url) that
\* finds the url absent does not return at once but starts a new handshake
\* on a new socket; and a url is in connected_urls only while an outbound
\* link to it whose handshake completed still has its reader task.
C39_ReconnectAfterDisconnect ==
    /\ [](\A c \in Procs : \A url \in connected_urls[c] :
             \E l \in Links : link[l].conn = c /\ link[l].acc = url /\ link[l].cst = "up")
    /\ [][/\ \A l \in Links :
                ReaderEnds(l) =>
                    /\ link[l].peer_id \notin connected_peers'[link[l].conn]
                    /\ link[l].acc \notin connected_urls'[link[l].conn]
          /\ \A c \in Procs : \A url \in Procs :
                Calls(c, url) /\ url \notin connected_urls[c] =>
                    /\ results'[c].returns = results[c].returns
                    /\ \E l \in Links :
                          /\ link[l].cst = "free"
                          /\ link'[l].cst = "connecting"
                          /\ link'[l].conn = c
                          /\ link'[l].acc = url]_vars

\* C39 witness: agent-1's first call to agent-2 returned Connected, the
\* reader task of that link has ended and removed the url, and its second
\* call is in a new handshake, waiting for the PresenceAck.
C39_Witness ==
    /\ results[1].calls = <<2, 2>>
    /\ results[1].returns = <<<<2, "Connected">>>>
    /\ connected_urls[1] = {}
    /\ AgentId(2) \notin connected_peers[1]
    /\ \E l \in Links : link[l].conn = 1 /\ link[l].acc = 2 /\ link[l].cst = "ackwait"
    /\ \A l \in Links : link[l].cst # "up"


\* The accepted link l of process p has closed after p registered id from a
\* Presence it read on it, and p has no other link that registered id.
ClosedAccepted(l, p, id) ==
    /\ link[l].acc = p
    /\ link[l].ast \in {"reading", "sending"}
    /\ ~link[l].open
    /\ link[l].peer_agent_id = id
    /\ \A k \in Links \ {l} :
          /\ ~(link[k].acc = p /\ link[k].ast \in {"reading", "sending"}
                  /\ link[k].peer_agent_id = id)
          /\ ~(link[k].conn = p /\ link[k].cst = "up" /\ link[k].peer_id = id)

\* C40: no stale peer on the accepting side.  After an accepted link has
\* closed, also when the connector gave up on a handshake timeout, the
\* identity registered only through the Presence received on that link is
\* eventually removed from the acceptor's connected_peers.
C40_NoStalePeer ==
    \A l \in Links :
        ClosedAccepted(l, 2, AgentId(1)) ~> AgentId(1) \notin connected_peers[2]

====
